---------------------------- MODULE Spec2Model ----------------------------
(***************************************************************************)
(* Gossipify: the relay (server/src/index.ts) and the chat client's       *)
(* reconciliation loop (client/src/screens/ChatScreen.tsx, the version at  *)
(* lines 296-1519), modelled as one state machine.                         *)
(*                                                                         *)
(* Strings that the code trims and lower-cases are sequences of one-       *)
(* character strings, so that normalisation is computed, not assumed.      *)
(* Public keys are short sequences of bytes and the fingerprint is their   *)
(* prefix; a secretbox is the record of the key, nonce and plaintext it    *)
(* was sealed with, and opens only under the same key and nonce.           *)
(*                                                                         *)
(* An event handler, the state updaters it calls and the effects that its  *)
(* state changes trigger are one step; an await is a step boundary.        *)
(***************************************************************************)
EXTENDS Integers, Sequences, FiniteSets, TLC

\* ------------------------------------------------------------------ bounds
\* number of records the relay store may hold in a run
MaxMsgs == 2
\* largest value Date.now() takes in a run (sender clocks and relay clock)
MaxTime == 2

\* ------------------------------------------------------- strings, handles
\* String.prototype.toLowerCase on one character
Lower(c) ==
  CASE c = "A" -> "a"
    [] c = "B" -> "b"
    [] c = "C" -> "c"
    [] OTHER -> c

RECURSIVE TrimStart(_)
\* leading white space removed
TrimStart(s) ==
  IF s = <<>> THEN s
  ELSE IF Head(s) = " " THEN TrimStart(Tail(s)) ELSE s

RECURSIVE TrimEnd(_)
\* trailing white space removed
TrimEnd(s) ==
  IF s = <<>> THEN s
  ELSE IF s[Len(s)] = " " THEN TrimEnd(SubSeq(s, 1, Len(s) - 1)) ELSE s

\* String.prototype.trim
Trim(s) == TrimEnd(TrimStart(s))

\* Normalize that trims but keeps the case
Normalize_KeepCase(s) == Trim(s)

\* String(x || '').trim().toLowerCase()
Normalize(s) == [i \in 1..Len(Trim(s)) |-> Lower(Trim(s)[i])]

\* JavaScript truthiness of a string
Truthy(s) == s # <<>>

\* the handles of the three identities, normalised
Alice == <<"a">>
Bob == <<"b">>
Carol == <<"c">>
Handles == {Alice, Bob, Carol}

\* ------------------------------------------------------------ cryptography
\* identity numbers: each owns one secret key and one public key
Ids == {1, 2, 3}
IdOf(h) == CASE h = Alice -> 1 [] h = Bob -> 2 [] h = Carol -> 3 [] OTHER -> 0

\* the public key of identity i, as bytes
PublicKey(i) == <<i, 7>>
NoKey == <<>>

\* fingerprintPublicKey: pk.slice(0, 8), the leading bytes of the decoded
\* public key (the first byte of the model's two-byte keys)
fingerprintPublicKey(pk) == SubSeq(pk, 1, IF Len(pk) < 1 THEN Len(pk) ELSE 1)

\* deriveSharedKey, were the result to depend on the own secret only
deriveSharedKey_OwnOnly(mySecret, peerPublic) == {mySecret}

\* deriveSharedKey: nacl.box.before(peerPublic, mySecret); X25519 gives
\* both sides of a pairing the same 32 bytes, here the set of the two ids
deriveSharedKey(mySecret, peerPublic) == {mySecret, peerPublic[1]}

\* ciphertext strings on the wire
EmptyCt == [kind |-> "empty", k |-> {}, n |-> 0, p |-> ""]
BlankCt == [kind |-> "blank", k |-> {}, n |-> 0, p |-> ""]
Box(p, n, k) == [kind |-> "box", k |-> k, n |-> n, p |-> p]

\* encryptMessage: nacl.secretbox under a nonce n that nacl.randomBytes
\* draws; both results are base64 strings
encryptMessage(plaintext, key, n) ==
  [nonce |-> n, ciphertext |-> Box(plaintext, n, key)]

\* ciphertext && ciphertext.trim().length > 0
HasText(ct) == ct.kind = "box"

\* the result of a failed open
Null == "<null>"

\* decryptMessage, were the open to fail always
decryptMessage_NeverOpens(ct, nonce, key) == Null

\* decryptMessage: nacl.secretbox.open(ciphertext, nonce, key) || null
decryptMessage(ct, nonce, key) ==
  IF ct.kind = "box" /\ ct.k = key /\ ct.n = nonce THEN ct.p ELSE Null

\* ------------------------------------------------------------------- state
VARIABLES
  users,        \* relay: users.json, normalised handle -> public key
  messages,     \* relay: messages.json, the sequence of StoredMessage
  request,      \* relay: the last request served
  reply,        \* relay: the HTTP response to it
  peerUsername, \* client: the peerUsername prop of ChatScreen
  items,        \* client: the timeline (useState items)
  sinceRef,     \* client: sinceRef.current, the poll cursor
  sendingMessageId, \* client: useState sendingMessageId (0 = null)
  peerPubRef,   \* client: peerPubRef.current (NoKey = '')
  convoKeyRef,  \* client: convoKeyRef.current ({} = null)
  lookup,       \* client: the setup effect's key lookup: "pending", "ok", "notfound"
  pollPc,       \* client: the poll loop: "timer", "sent" or "inflight"
  inflight,     \* client: the outstanding poll: what the loop captured, and
                \* once the relay served it the response it will deliver
  outcome,      \* client: how the last send ended (alert shown, timer scheduled)
  sends,        \* client: the send requests not yet acknowledged
  nextTemp,     \* client: the number of temporary ids drawn so far
  switches,     \* client: the number of times the user changed the peer
  tombstoned,   \* history: ids this client removed because a poll listed them
  blobs,        \* relay: the attachments directory, one uploaded blob per id
  twin,         \* a second run of the relay, fed the same requests with other plaintexts
  call,         \* library: the last call of a cryptographic function and its result
  stale,        \* client: the poll loop of an effect run that was cleaned up
                \* while its request was outstanding
  composing,    \* client: the call of onSend that awaits getStoredKeypair
  destruct,     \* client: the self-destruct timer of a sent message: "idle",
                \* "deleting" once it fired, then "deleted" or "failed"
  pollErrors,   \* client: the number of poll errors the loop has caught
  secureStore   \* client: the keypair in the device's credential store

relayVars == <<users, messages, request, reply>>
loopVars == <<stale, composing, destruct, pollErrors, secureStore>>
clientVars == <<peerUsername, items, sinceRef, sendingMessageId, peerPubRef,
                convoKeyRef, lookup, pollPc, inflight, outcome, sends,
                nextTemp, switches, tombstoned, loopVars>>
libVars == <<blobs, twin, call>>
vars == <<users, messages, request, reply, peerUsername, items, sinceRef,
          sendingMessageId, peerPubRef, convoKeyRef, lookup, pollPc, inflight,
          outcome, sends, nextTemp, switches, tombstoned, blobs, twin, call,
          stale, composing, destruct, pollErrors, secureStore>>

\* ------------------------------------------------------------------- relay
\* a response of the relay; the fields an operation does not set are empty
Reply(op, status, id, msgs, dels, key) ==
  [op |-> op, status |-> status, id |-> id, messages |-> msgs,
   deletions |-> dels, publicKey |-> key]

NoReply == Reply("none", 0, 0, <<>>, <<>>, NoKey)

\* the body of POST /send; 0 stands for an absent number or id
SendBody(from, to, ct, nonce, fp, ts, att) ==
  [from |-> from, to |-> to, ciphertext |-> ct, nonce |-> nonce,
   fingerprint |-> fp, timestamp |-> ts, attachmentId |-> att,
   mime |-> "", name |-> ""]

NoBody == SendBody(<<>>, <<>>, EmptyCt, 0, NoKey, 0, 0)

\* a request: its route, the handle of its path or body (username,
\* requester), and its since, id, publicKey or send body
Request(op, handle, since, id, key, body) ==
  [op |-> op, handle |-> handle, since |-> since, id |-> id,
   publicKey |-> key, body |-> body]

NoRequest == Request("none", <<>>, 0, 0, NoKey, NoBody)

\* POST /send, the first check: a required field is missing
SendMissing(b) ==
  \/ ~Truthy(b.from)
  \/ ~Truthy(b.to)
  \/ (~HasText(b.ciphertext) /\ b.attachmentId = 0)
  \/ b.nonce = 0
  \/ b.timestamp = 0
  \/ ~Truthy(b.fingerprint)

\* SendInvalidPair without the comparison of the two handles
SendInvalidPair_NoEqual(b) ==
  \/ ~Truthy(Normalize(b.from))
  \/ ~Truthy(Normalize(b.to))

\* POST /send, the second check: the normalised handles are empty or equal
SendInvalidPair(b) ==
  \/ ~Truthy(Normalize(b.from))
  \/ ~Truthy(Normalize(b.to))
  \/ Normalize(b.from) = Normalize(b.to)

SendRejected(b) == SendMissing(b) \/ SendInvalidPair(b)

\* nanoid(12): an id no stored record has
FreshId(store) == Len(store) + 1

\* the StoredMessage POST /send builds from an accepted body
StoredMessage(id, b) ==
  [id |-> id, from |-> Normalize(b.from), to |-> Normalize(b.to),
   ciphertext |-> b.ciphertext, nonce |-> b.nonce,
   fingerprint |-> b.fingerprint, timestamp |-> b.timestamp,
   attachmentId |-> b.attachmentId, mime |-> b.mime, name |-> b.name,
   deleted |-> FALSE, deletedAt |-> 0]

\* POST /send: the store after the request
SendStore(store, b) ==
  IF SendRejected(b) THEN store ELSE Append(store, StoredMessage(FreshId(store), b))

\* POST /send: the response
SendReply(store, b) ==
  IF SendRejected(b) THEN Reply("send", 400, 0, <<>>, <<>>, NoKey)
  ELSE Reply("send", 200, FreshId(store), <<>>, <<>>, NoKey)

\* PollRelevant as the earlier relay had it: only the records addressed to
\* the user
PollRelevant_ToOnly(m, user, since) ==
  /\ Normalize(m.to) = user
  /\ m.timestamp >= since
  /\ ~m.deleted

\* PollRelevant without the test of the tombstone
PollRelevant_KeepDeleted(m, user, since) ==
  /\ (Normalize(m.to) = user \/ Normalize(m.from) = user)
  /\ m.timestamp >= since

\* GET /poll: the predicate of filteredMessages
PollRelevant(m, user, since) ==
  /\ (Normalize(m.to) = user \/ Normalize(m.from) = user)
  /\ m.timestamp >= since
  /\ ~m.deleted

\* GET /poll: the predicate of deletions
PollDeleted(m, user, since) ==
  /\ (Normalize(m.to) = user \/ Normalize(m.from) = user)
  /\ m.deleted
  /\ m.deletedAt >= since

\* GET /poll/:username?since=
PollReply(store, username, since) ==
  LET user == Normalize(username)
      KeepM(m) == PollRelevant(m, user, since)
      KeepD(m) == PollDeleted(m, user, since)
      dels == SelectSeq(store, KeepD)
  IN Reply("poll", 200, 0, SelectSeq(store, KeepM),
           [i \in 1..Len(dels) |-> [id |-> dels[i].id, deletedAt |-> dels[i].deletedAt]],
           NoKey)

\* DeleteIndex that looks for the id alone
DeleteIndex_AnyRequester(store, id, requester) ==
  LET hits == {i \in 1..Len(store) : store[i].id = id}
  IN IF hits = {} THEN 0 ELSE CHOOSE i \in hits : \A j \in hits : i <= j

\* POST /delete: messages.findIndex(id and requester match), 0 for -1
DeleteIndex(store, id, requester) ==
  LET r == Normalize(requester)
      hits == {i \in 1..Len(store) :
                 store[i].id = id /\ (store[i].from = r \/ store[i].to = r)}
  IN IF hits = {} THEN 0 ELSE CHOOSE i \in hits : \A j \in hits : i <= j

\* POST /delete: the status of the response
DeleteStatus(store, id, requester) ==
  IF id = 0 \/ ~Truthy(requester) THEN 400
  ELSE IF DeleteIndex(store, id, requester) = 0 THEN 404 ELSE 200

\* DeleteStore that splices the record out of the array
DeleteStore_Remove(store, id, requester, t) ==
  IF DeleteStatus(store, id, requester) # 200 THEN store
  ELSE SubSeq(store, 1, DeleteIndex(store, id, requester) - 1)
         \o SubSeq(store, DeleteIndex(store, id, requester) + 1, Len(store))

\* POST /delete: the store after the request, t the value of Date.now()
DeleteStore(store, id, requester, t) ==
  IF DeleteStatus(store, id, requester) # 200 THEN store
  ELSE [store EXCEPT ![DeleteIndex(store, id, requester)] =
          [@ EXCEPT !.deleted = TRUE, !.deletedAt = t]]

\* POST /register: the status of the response
RegisterStatus(username, publicKey) ==
  IF ~Truthy(username) \/ publicKey = NoKey THEN 400
  ELSE IF ~Truthy(Normalize(username)) THEN 400 ELSE 200

\* POST /register: users.json after the request
RegisterUsers(us, username, publicKey) ==
  IF RegisterStatus(username, publicKey) # 200 THEN us
  ELSE [us EXCEPT ![Normalize(username)] = publicKey]

\* GET /users/:username
LookupReply(us, username) ==
  LET h == Normalize(username)
  IN IF h \in DOMAIN us /\ us[h] # NoKey
     THEN Reply("lookup", 200, 0, <<>>, <<>>, us[h])
     ELSE Reply("lookup", 404, 0, <<>>, <<>>, NoKey)

\* ------------------------------------------------------- relay: operations
\* the values a request may carry
BobFp == fingerprintPublicKey(PublicKey(2))
HiBox == Box("hi", 1, {1, 2})

\* bodies the relay accepts: text and attachment records of three pairs,
\* one of them spelled with capitals and blanks
GoodBodies ==
  {SendBody(pr[1], pr[2], HiBox, 1, BobFp, ts, 0) :
     pr \in {<<(<<"A", " ">>), (<<" ", "B">>)>>, <<Bob, Alice>>, <<Carol, Alice>>},
     ts \in 1..MaxTime}
  \cup {SendBody(Bob, Alice, ct, 1, BobFp, 1, 1) : ct \in {EmptyCt, BlankCt}}

\* bodies with a bad pair of handles, without a field, or with a blank
\* ciphertext and no attachment
BadBodies ==
  {SendBody(pr[1], pr[2], HiBox, 1, BobFp, 1, 0) :
     pr \in {<<Alice, Alice>>, <<(<<"A", " ">>), Alice>>, <<(<<" ">>), Bob>>,
             <<Alice, (<<" ">>)>>, <<(<<>>), Bob>>, <<Alice, (<<>>)>>}}
  \cup {SendBody(Alice, Bob, HiBox, 0, BobFp, 1, 0),
        SendBody(Alice, Bob, HiBox, 1, NoKey, 1, 0),
        SendBody(Alice, Bob, HiBox, 1, BobFp, 0, 0),
        SendBody(Alice, Bob, EmptyCt, 1, BobFp, 1, 0),
        SendBody(Alice, Bob, BlankCt, 1, BobFp, 1, 0)}

SendBodies == GoodBodies \cup BadBodies

\* spellings of the handle of a poll, a delete or a registration
PollHandles == {Alice, <<" ", "B">>, Carol}
Requesters == {<<"A", " ">>, Bob, Carol, <<>>}
RegHandles == {<<" ", "B">>, <<" ">>}
RegKeys == {NoKey, PublicKey(2)}
LookupHandles == RegHandles \cup {Bob, <<"B">>, Alice}

\* users.json and messages.json as ensureStorage creates them
NoUsers == [h \in Handles |-> NoKey]

\* how a send ended: result is "sent" or "failed", alert tells that
\* Alert.alert was called, timer that the self-destruct timer was scheduled
Outcome(tempId, msgId, result, alert, timer) ==
  [tempId |-> tempId, msgId |-> msgId, result |-> result, alert |-> alert,
   timer |-> timer]

NoOutcome == Outcome(0, 0, "none", FALSE, FALSE)

\* selfDestructSec: the user has chosen a self-destruct delay
SelfDestructOn == TRUE

\* an old poll loop: pc is "none" when there is none, "inflight" while its
\* request is outstanding and "timer" when it has scheduled its next poll;
\* served tells whether the relay has answered the request; poll is what
\* the loop captured and, once served, the response
OldLoop(pc, served, peer, poll) ==
  [pc |-> pc, served |-> served, peer |-> peer, poll |-> poll]

\* no old loop is left
NoOldLoop ==
  OldLoop("none", FALSE, <<>>,
          [since |-> 0, key |-> {}, messages |-> <<>>, deletions |-> <<>>])

\* a call of onSend up to its first await: peer is the peerUsername of the
\* render whose onSend was called, text the trimmed input
Composing(active, peer, text) == [active |-> active, peer |-> peer, text |-> text]

NoComposing == Composing(FALSE, <<>>, "")

\* the keypair generateKeypair stored on first use: that of identity 1
StoredKeypair == [publicKey |-> <<1, 7>>, secretKey |-> 1]

\* the self-destruct timer the model follows: pc is "idle" until it fires,
\* "deleting" while its delete request is outstanding, then "deleted" or
\* "failed"; msgId is the id its callback closed over
Timer(pc, msgId) == [pc |-> pc, msgId |-> msgId]

NoTimer == Timer("idle", 0)

LoopIdle ==
  /\ stale = NoOldLoop
  /\ composing = NoComposing
  /\ destruct = NoTimer
  /\ pollErrors = 0
  /\ secureStore = StoredKeypair

\* the client before ChatScreen is mounted
ClientIdle ==
  /\ LoopIdle
  /\ peerUsername = <<>>
  /\ items = <<>>
  /\ sinceRef = 0
  /\ sendingMessageId = 0
  /\ peerPubRef = NoKey
  /\ convoKeyRef = {}
  /\ lookup = "none"
  /\ pollPc = "none"
  /\ inflight = NoReply
  /\ outcome = NoOutcome
  /\ sends = {}
  /\ nextTemp = 0
  /\ switches = 0
  /\ tombstoned = {}

\* no call of the cryptographic library yet
NoCall == [op |-> "none"]

\* the attachments directory as ensureStorage creates it, and the second
\* run of the relay in the same initial state
LibIdle ==
  /\ blobs = <<>>
  /\ twin = [messages |-> <<>>, blobs |-> <<>>, request |-> NoRequest]
  /\ call = NoCall

InitRelay ==
  /\ users = NoUsers
  /\ messages = <<>>
  /\ request = NoRequest
  /\ reply = NoReply
  /\ ClientIdle
  /\ LibIdle

\* POST /register
Register(username, publicKey) ==
  /\ users' = RegisterUsers(users, username, publicKey)
  /\ request' = Request("register", username, 0, 0, publicKey, NoBody)
  /\ reply' = Reply("register", RegisterStatus(username, publicKey), 0, <<>>, <<>>, NoKey)
  /\ UNCHANGED messages

\* GET /users/:username
Lookup(username) ==
  /\ request' = Request("lookup", username, 0, 0, NoKey, NoBody)
  /\ reply' = LookupReply(users, username)
  /\ UNCHANGED <<users, messages>>

\* POST /send
Send(b) ==
  /\ SendRejected(b) \/ Len(messages) < MaxMsgs
  /\ messages' = SendStore(messages, b)
  /\ request' = Request("send", <<>>, 0, 0, NoKey, b)
  /\ reply' = SendReply(messages, b)
  /\ UNCHANGED users

\* GET /poll/:username
Poll(username, since) ==
  /\ request' = Request("poll", username, since, 0, NoKey, NoBody)
  /\ reply' = PollReply(messages, username, since)
  /\ UNCHANGED <<users, messages>>

\* POST /delete; t is the value Date.now() returns
Delete(id, requester, t) ==
  /\ messages' = DeleteStore(messages, id, requester, t)
  /\ request' = Request("delete", requester, 0, id, NoKey, NoBody)
  /\ reply' = Reply("delete", DeleteStatus(messages, id, requester), 0, <<>>, <<>>, NoKey)
  /\ UNCHANGED users

NextRelay ==
  \/ \E u \in RegHandles, k \in RegKeys :
       Register(u, k) /\ UNCHANGED <<clientVars, libVars>>
  \/ \E u \in LookupHandles :
       Lookup(u) /\ UNCHANGED <<clientVars, libVars>>
  \/ \E b \in SendBodies :
       Send(b) /\ UNCHANGED <<clientVars, libVars>>
  \/ \E u \in PollHandles, since \in 0..MaxTime :
       Poll(u, since) /\ UNCHANGED <<clientVars, libVars>>
  \/ \E id \in 0..MaxMsgs, r \in Requesters, t \in 1..MaxTime :
       Delete(id, r, t) /\ UNCHANGED <<clientVars, libVars>>

SpecRelay == InitRelay /\ [][NextRelay]_vars

\* ------------------------------------------- relay: storage that may fail
\* how a write of a file ends: done, refused with the file as it was, or
\* broken off after the file was truncated
WriteOutcomes == {"ok", "refused", "torn"}

\* readUsers: the parsed file, or {} when reading or parsing throws
readUsers(file, fails) == IF fails THEN NoUsers ELSE file

\* writeUsers: the file after the call; the error is logged and swallowed
writeUsers(file, data, result) ==
  IF result = "ok" THEN data
  ELSE IF result = "refused" THEN file ELSE NoUsers

\* readMessages: the parsed file, or [] when reading or parsing throws
readMessages(file, fails) == IF fails THEN <<>> ELSE file

\* writeMessages: the file after the call; the error is logged and swallowed
writeMessages(file, data, result) ==
  IF result = "ok" THEN data
  ELSE IF result = "refused" THEN file ELSE <<>>

\* spellings of the handle of a registration, one per user
StorageRegHandles == {<<"A", " ">>, <<" ", "B">>, Carol}

\* send bodies of two conversations, and one the relay rejects
StorageBodies ==
  {SendBody(from, Alice, HiBox, 1, BobFp, 1, 0) : from \in {Bob, Carol}}
  \cup {SendBody(Alice, Alice, HiBox, 1, BobFp, 1, 0)}

StorageRequesters == {Bob, <<"A", " ">>, <<>>}

\* POST /register over readUsers and writeUsers
RegisterIO(username, publicKey, readFails, result) ==
  /\ users' = IF RegisterStatus(username, publicKey) # 200 THEN users
              ELSE writeUsers(users,
                              RegisterUsers(readUsers(users, readFails),
                                            username, publicKey),
                              result)
  /\ request' = Request("register", username, 0, 0, publicKey, NoBody)
  /\ reply' = Reply("register", RegisterStatus(username, publicKey), 0, <<>>, <<>>, NoKey)
  /\ UNCHANGED messages

\* POST /send over readMessages and writeMessages
SendIO(b, readFails, result) ==
  /\ SendRejected(b) \/ Len(messages) < MaxMsgs
  /\ \E got \in {readMessages(messages, readFails)} :
       /\ messages' = IF SendRejected(b) THEN messages
                      ELSE writeMessages(messages, SendStore(got, b), result)
       /\ reply' = SendReply(got, b)
  /\ request' = Request("send", <<>>, 0, 0, NoKey, b)
  /\ UNCHANGED users

\* POST /delete over readMessages and writeMessages
DeleteIO(id, requester, t, readFails, result) ==
  /\ \E got \in {readMessages(messages, readFails)} :
       /\ messages' = IF DeleteStatus(got, id, requester) # 200 THEN messages
                      ELSE writeMessages(messages,
                                         DeleteStore(got, id, requester, t),
                                         result)
       /\ reply' = Reply("delete", DeleteStatus(got, id, requester), 0, <<>>, <<>>, NoKey)
  /\ request' = Request("delete", requester, 0, id, NoKey, NoBody)
  /\ UNCHANGED users

NextStorage ==
  \/ \E u \in StorageRegHandles, k \in RegKeys, rd \in BOOLEAN, wr \in WriteOutcomes :
       RegisterIO(u, k, rd, wr) /\ UNCHANGED <<clientVars, libVars>>
  \/ \E b \in StorageBodies, rd \in BOOLEAN, wr \in WriteOutcomes :
       SendIO(b, rd, wr) /\ UNCHANGED <<clientVars, libVars>>
  \/ \E id \in 0..MaxMsgs, r \in StorageRequesters, t \in {MaxTime},
        rd \in BOOLEAN, wr \in WriteOutcomes :
       DeleteIO(id, r, t, rd, wr) /\ UNCHANGED <<clientVars, libVars>>

SpecStorage == InitRelay /\ [][NextStorage]_vars

\* ------------------------------------------------------------------ client
\* the local identity: its stored handle, secret key and public key
MeUser == Alice
MySecret == IdOf(MeUser)
MyPublic == PublicKey(1)

\* a ChatItem; attachment is the attachment id, 0 for null
ChatItem(id, fromMe, text, ts, att, status) ==
  [id |-> id, fromMe |-> fromMe, text |-> text, timestamp |-> ts,
   attachment |-> att, status |-> status]

\* Array.prototype.sort((a, b) => a.timestamp - b.timestamp), a stable sort:
\* x goes behind every element whose timestamp is not larger
RECURSIVE InsertByTimestamp(_, _)
InsertByTimestamp(x, s) ==
  IF s = <<>> THEN <<x>>
  ELSE IF Head(s).timestamp <= x.timestamp
       THEN <<Head(s)>> \o InsertByTimestamp(x, Tail(s))
       ELSE <<x>> \o s

RECURSIVE SortByTimestamp(_)
SortByTimestamp(s) ==
  IF s = <<>> THEN <<>>
  ELSE InsertByTimestamp(s[Len(s)], SortByTimestamp(SubSeq(s, 1, Len(s) - 1)))

\* items.map(item => item.id === tempId ? {...item, id, status: 'sent'} : item)
ReplaceTemp(s, tempId, id) ==
  [i \in 1..Len(s) |->
     IF s[i].id = tempId THEN [s[i] EXCEPT !.id = id, !.status = "sent"] ELSE s[i]]

\* the ids of a sequence of items
ItemIds(s) == {s[i].id : i \in 1..Len(s)}

Max(a, b) == IF a >= b THEN a ELSE b

\* the context the merge reads: the captured peer, key and sendingMessageId,
\* and peerPubRef.current
MergeCtx(peer, key, peerPub, tempId) ==
  [peer |-> peer, key |-> key, peerPub |-> peerPub, tempId |-> tempId]

\* the poll loop's fingerprint test of a record from the peer: the record is
\* skipped when both fingerprints are non-empty and differ
FingerprintMismatch(m, peerPub) ==
  LET messageFingerprint == m.fingerprint
      currentPeerFingerprint == IF peerPub # NoKey THEN fingerprintPublicKey(peerPub) ELSE NoKey
  IN /\ messageFingerprint # NoKey
     /\ currentPeerFingerprint # NoKey
     /\ messageFingerprint # currentPeerFingerprint

\* the text shown for my own record: the plaintext, '' when the open fails
\* or the ciphertext is empty
OwnText(m, key) ==
  IF m.ciphertext = EmptyCt THEN ""
  ELSE IF decryptMessage(m.ciphertext, m.nonce, key) = Null THEN ""
       ELSE decryptMessage(m.ciphertext, m.nonce, key)

\* the text shown for a record of the peer: the plaintext, else the
\* attachment's name, else ''
PeerText(m, key) ==
  IF HasText(m.ciphertext) /\ decryptMessage(m.ciphertext, m.nonce, key) # ""
  THEN decryptMessage(m.ciphertext, m.nonce, key)
  ELSE IF m.attachmentId # 0 THEN "Attachment" ELSE ""

\* MergeOne that admits every record exchanged with the local user, whoever
\* the other handle is
MergeOne_AnyPair(acc, m, cx) ==
  LET isFromMeToPeer == Normalize(m.from) = MeUser
      isFromPeerToMe == Normalize(m.to) = MeUser
      seen == [acc EXCEPT !.hasNew = TRUE]
  IN IF acc.returned THEN acc
     ELSE IF m.id \in ItemIds(acc.next) THEN acc
     ELSE IF ~isFromMeToPeer /\ ~isFromPeerToMe THEN acc
     ELSE IF isFromMeToPeer
          THEN IF cx.tempId # 0 /\ m.id # 0
               THEN [seen EXCEPT !.next = ReplaceTemp(acc.next, cx.tempId, m.id),
                                 !.returned = TRUE]
               ELSE [seen EXCEPT
                       !.next = Append(acc.next,
                                  ChatItem(m.id, TRUE, OwnText(m, cx.key), m.timestamp,
                                           m.attachmentId, "sent")),
                       !.since = Max(acc.since, m.timestamp)]
          ELSE IF FingerprintMismatch(m, cx.peerPub) THEN seen
               ELSE IF HasText(m.ciphertext)
                       /\ decryptMessage(m.ciphertext, m.nonce, cx.key) = Null
                    THEN seen
                    ELSE [seen EXCEPT
                            !.next = Append(acc.next,
                                       ChatItem(m.id, FALSE, PeerText(m, cx.key),
                                                m.timestamp, m.attachmentId, "none")),
                            !.since = Max(acc.since, m.timestamp)]

\* MergeOne without the set of the ids the timeline already holds
MergeOne_NoExisting(acc, m, cx) ==
  LET isFromMeToPeer == Normalize(m.from) = MeUser /\ Normalize(m.to) = cx.peer
      isFromPeerToMe == Normalize(m.from) = cx.peer /\ Normalize(m.to) = MeUser
      seen == [acc EXCEPT !.hasNew = TRUE]
  IN IF acc.returned THEN acc
     ELSE IF ~isFromMeToPeer /\ ~isFromPeerToMe THEN acc
     ELSE IF isFromMeToPeer
          THEN IF cx.tempId # 0 /\ m.id # 0
               THEN [seen EXCEPT !.next = ReplaceTemp(acc.next, cx.tempId, m.id),
                                 !.returned = TRUE]
               ELSE [seen EXCEPT
                       !.next = Append(acc.next,
                                  ChatItem(m.id, TRUE, OwnText(m, cx.key), m.timestamp,
                                           m.attachmentId, "sent")),
                       !.since = Max(acc.since, m.timestamp)]
          ELSE IF FingerprintMismatch(m, cx.peerPub) THEN seen
               ELSE IF HasText(m.ciphertext)
                       /\ decryptMessage(m.ciphertext, m.nonce, cx.key) = Null
                    THEN seen
                    ELSE [seen EXCEPT
                            !.next = Append(acc.next,
                                       ChatItem(m.id, FALSE, PeerText(m, cx.key),
                                                m.timestamp, m.attachmentId, "none")),
                            !.since = Max(acc.since, m.timestamp)]

\* the body of the for loop over r.messages for one record m; acc holds next,
\* updatedSince, hasNewMessages, and whether the updater has returned early
\* (with setSendingMessageId(null) called)
\* the loop body, were the records of the local user passed over
MergeOne_SkipOwn(acc, m, cx) ==
  LET isFromPeerToMe == Normalize(m.from) = cx.peer /\ Normalize(m.to) = MeUser
      seen == [acc EXCEPT !.hasNew = TRUE]
  IN IF acc.returned THEN acc
     ELSE IF m.id \in ItemIds(acc.next) THEN acc
     ELSE IF ~isFromPeerToMe THEN acc
     ELSE IF FingerprintMismatch(m, cx.peerPub) THEN seen
     ELSE IF HasText(m.ciphertext)
             /\ decryptMessage(m.ciphertext, m.nonce, cx.key) = Null
     THEN seen
     ELSE [seen EXCEPT
             !.next = Append(acc.next,
                        ChatItem(m.id, FALSE, PeerText(m, cx.key),
                                 m.timestamp, m.attachmentId, "none")),
             !.since = Max(acc.since, m.timestamp)]

MergeOne(acc, m, cx) ==
  LET isFromMeToPeer == Normalize(m.from) = MeUser /\ Normalize(m.to) = cx.peer
      isFromPeerToMe == Normalize(m.from) = cx.peer /\ Normalize(m.to) = MeUser
      seen == [acc EXCEPT !.hasNew = TRUE]
  IN IF acc.returned THEN acc
     ELSE IF m.id \in ItemIds(acc.next) THEN acc
     ELSE IF ~isFromMeToPeer /\ ~isFromPeerToMe THEN acc
     ELSE IF isFromMeToPeer
          THEN IF cx.tempId # 0 /\ m.id # 0
               THEN [seen EXCEPT !.next = ReplaceTemp(acc.next, cx.tempId, m.id),
                                 !.returned = TRUE]
               ELSE [seen EXCEPT
                       !.next = Append(acc.next,
                                  ChatItem(m.id, TRUE, OwnText(m, cx.key), m.timestamp,
                                           m.attachmentId, "sent")),
                       !.since = Max(acc.since, m.timestamp)]
          ELSE IF FingerprintMismatch(m, cx.peerPub) THEN seen
               ELSE IF HasText(m.ciphertext)
                       /\ decryptMessage(m.ciphertext, m.nonce, cx.key) = Null
                    THEN seen
                    ELSE [seen EXCEPT
                            !.next = Append(acc.next,
                                       ChatItem(m.id, FALSE, PeerText(m, cx.key),
                                                m.timestamp, m.attachmentId, "none")),
                            !.since = Max(acc.since, m.timestamp)]

RECURSIVE MergeLoop(_, _, _)
\* for (const m of r.messages)
MergeLoop(acc, msgs, cx) ==
  IF msgs = <<>> THEN acc ELSE MergeLoop(MergeOne(acc, Head(msgs), cx), Tail(msgs), cx)

RECURSIVE MaxDeletedAt(_, _)
\* for (const d of r.deletions) updatedSince = max(updatedSince, d.deletedAt + 1)
MaxDeletedAt(since, dels) ==
  IF dels = <<>> THEN since
  ELSE MaxDeletedAt(Max(since, Head(dels).deletedAt + 1), Tail(dels))

\* next.filter(i => !r.deletions.find(d => d.id === i.id))
DropDeleted(s, dels) ==
  LET gone == {dels[i].id : i \in 1..Len(dels)}
      Keep(i) == i.id \notin gone
  IN SelectSeq(s, Keep)

\* the setItems updater of the poll loop and the variables it assigns:
\* items is the new timeline, since is updatedSince, hasNew is
\* hasNewMessages, returned tells that setSendingMessageId(null) was called
\* and the updater returned inside the loop
Merge(prev, r, sinceLocal, cx) ==
  LET acc == MergeLoop([next |-> prev, since |-> sinceLocal, hasNew |-> FALSE,
                        returned |-> FALSE], r.messages, cx)
  IN IF acc.returned
     THEN [items |-> SortByTimestamp(acc.next), since |-> acc.since,
           hasNew |-> acc.hasNew, returned |-> TRUE,
           removed |-> {}]
     ELSE [items |-> SortByTimestamp(DropDeleted(acc.next, r.deletions)),
           since |-> MaxDeletedAt(acc.since, r.deletions),
           hasNew |-> acc.hasNew, returned |-> FALSE,
           removed |-> ItemIds(acc.next) \ ItemIds(DropDeleted(acc.next, r.deletions))]

\* ------------------------------------------------------ client: operations
\* number of messages the local user sends in a run
MaxOwnSends == 1
\* number of times the user opens another conversation in a run
MaxSwitches == 1

\* the peers a conversation is opened with
Peers == {Bob, Carol}

\* users.json with the three identities registered
AllUsers == [h \in Handles |-> PublicKey(IdOf(h))]

\* an outstanding poll: the cursor and key the loop captured, and the response
PollInFlight(since, key, r) ==
  [since |-> since, key |-> key, messages |-> r.messages, deletions |-> r.deletions]

NoPoll == PollInFlight(0, {}, NoReply)

\* requests of the other parties: the records they have the relay store
PeerBodies ==
  {SendBody(Bob, MeUser, Box("hi", 1, {1, 2}), 1, fingerprintPublicKey(PublicKey(2)), ts, 0) :
     ts \in 1..MaxTime}
  \cup {SendBody(MeUser, Bob, Box("yo", 1, {1, 3}), 1, fingerprintPublicKey(MyPublic), 1, 0),
        SendBody(Carol, MeUser, Box("hi", 1, {1, 2}), 1, fingerprintPublicKey(PublicKey(2)), 1, 0)}

\* the relay with the identities registered, and ChatScreen mounted on the
\* conversation with Bob: both effects have run, the key lookup is under way
Init ==
  /\ users = AllUsers
  /\ messages = <<>>
  /\ request = NoRequest
  /\ reply = NoReply
  /\ peerUsername = Bob
  /\ items = <<>>
  /\ sinceRef = 0
  /\ sendingMessageId = 0
  /\ peerPubRef = NoKey
  /\ convoKeyRef = {}
  /\ lookup = "pending"
  /\ pollPc = "timer"
  /\ inflight = NoPoll
  /\ outcome = NoOutcome
  /\ sends = {}
  /\ nextTemp = 0
  /\ switches = 0
  /\ tombstoned = {}
  /\ LoopIdle
  /\ LibIdle

\* the body of the poll effect, run when peerUsername or sendingMessageId
\* changed: the old loop is unmounted (its response will be dropped), the
\* timeline and the cursor are reset and a new loop starts
PollEffect ==
  /\ items' = <<>>
  /\ sinceRef' = 0
  /\ IF convoKeyRef # {}
     THEN /\ pollPc' = "sent"
          /\ inflight' = PollInFlight(0, convoKeyRef, NoReply)
     ELSE /\ pollPc' = "timer"
          /\ inflight' = NoPoll

\* the user opens the conversation with another peer: both effects run
SwitchPeer(p) ==
  /\ p # peerUsername
  /\ switches < MaxSwitches
  /\ switches' = switches + 1
  /\ peerUsername' = p
  /\ lookup' = "pending"
  /\ PollEffect
  /\ UNCHANGED <<libVars, loopVars, relayVars, sendingMessageId, peerPubRef, convoKeyRef,
                 outcome, sends, nextTemp, tombstoned>>

\* the setup effect's getPublicKey answers
LookupResolve ==
  /\ lookup = "pending"
  /\ LET r == LookupReply(users, Normalize(peerUsername))
     IN IF r.status = 404
        THEN /\ lookup' = "notfound"
             /\ UNCHANGED <<peerPubRef, convoKeyRef, sinceRef>>
        ELSE /\ lookup' = "ok"
             /\ peerPubRef' = r.publicKey
             /\ convoKeyRef' = deriveSharedKey(MySecret, r.publicKey)
             /\ sinceRef' = 0
  /\ UNCHANGED <<libVars, loopVars, relayVars, peerUsername, items, sendingMessageId, pollPc,
                 inflight, outcome, sends, nextTemp, switches, tombstoned>>

\* loop(): with a user, a key and a peer, poll(user, sinceRef.current) is
\* sent and the relay answers it
PollIssue ==
  /\ pollPc \in {"timer", "sent"}
  /\ pollPc = "timer" => convoKeyRef # {}
  /\ pollPc' = "inflight"
  /\ LET since == IF pollPc = "sent" THEN inflight.since ELSE sinceRef
         key == IF pollPc = "sent" THEN inflight.key ELSE convoKeyRef
     IN inflight' = PollInFlight(since, key, PollReply(messages, MeUser, since))
  /\ UNCHANGED <<libVars, loopVars, relayVars, peerUsername, items, sinceRef, sendingMessageId,
                 peerPubRef, convoKeyRef, lookup, outcome, sends, nextTemp,
                 switches, tombstoned>>

\* the context of the merge of the outstanding poll
CurrentCtx ==
  MergeCtx(Normalize(peerUsername), inflight.key, peerPubRef, sendingMessageId)

\* the response arrives: the updater runs, the cursor is stored and the next
\* poll is scheduled; when the updater cleared sendingMessageId the poll
\* effect runs again
PollReceive ==
  /\ pollPc = "inflight"
  /\ \E mg \in {Merge(items, inflight, inflight.since, CurrentCtx)} :
        /\ tombstoned' = tombstoned \cup mg.removed
        /\ IF mg.returned
           THEN /\ sendingMessageId' = 0
                /\ PollEffect
           ELSE /\ items' = mg.items
                /\ sinceRef' = IF mg.hasNew \/ mg.since # inflight.since
                               THEN mg.since ELSE sinceRef
                /\ pollPc' = "timer"
                /\ inflight' = NoPoll
                /\ UNCHANGED sendingMessageId
  /\ UNCHANGED <<libVars, loopVars, relayVars, peerUsername, peerPubRef, convoKeyRef, lookup,
                 outcome, sends, nextTemp, switches>>

\* onSend: the body of the send request, with the text put in the clear
\* into the name field
TextPayload_NameInClear(text, n, key, peer, ts) ==
  [SendBody(Normalize(MeUser), Normalize(peer),
            encryptMessage(text, key, n).ciphertext,
            encryptMessage(text, key, n).nonce,
            fingerprintPublicKey(MyPublic), ts, 0) EXCEPT !.name = text]

\* onSend: the body of the send request for a text sealed under key with
\* the nonce n
TextPayload(text, n, key, peer, ts) ==
  SendBody(Normalize(MeUser), Normalize(peer),
           encryptMessage(text, key, n).ciphertext,
           encryptMessage(text, key, n).nonce,
           fingerprintPublicKey(MyPublic), ts, 0)

\* the Composer is rendered: !peerNotFound && !isLoadingPeer
ComposerShown == lookup = "ok"

\* onSend up to the await of sendMessage: the text is sealed under
\* convoKeyRef.current, the placeholder is added and sendingMessageId set,
\* which runs the poll effect
OnSend(text, ts) ==
  /\ ComposerShown
  /\ convoKeyRef # {}
  /\ nextTemp < MaxOwnSends
  /\ LET tempId == 0 - (nextTemp + 1)
         payload == TextPayload(text, 1, convoKeyRef, peerUsername, ts)
     IN /\ sendingMessageId' = tempId
        /\ sends' = sends \cup {[tempId |-> tempId, body |-> payload, id |-> 0]}
        /\ nextTemp' = nextTemp + 1
        /\ PollEffect
  /\ UNCHANGED <<libVars, loopVars, relayVars, peerUsername, peerPubRef, convoKeyRef, lookup,
                 outcome, switches, tombstoned>>

\* the relay serves the POST /send of the local user
RelayAccept(s) ==
  /\ s \in sends
  /\ s.id = 0
  /\ Len(messages) < MaxMsgs
  /\ messages' = SendStore(messages, s.body)
  /\ sends' = (sends \ {s}) \cup {[s EXCEPT !.id = SendReply(messages, s.body).id]}
  /\ UNCHANGED <<libVars, loopVars, users, request, reply, peerUsername, items, sinceRef,
                 sendingMessageId, peerPubRef, convoKeyRef, lookup, pollPc,
                 inflight, outcome, nextTemp, switches, tombstoned>>

\* onSend after the await: sendingMessageId is cleared, the placeholder gets
\* the id of the response and the cursor the timestamp of the payload; when
\* sendingMessageId changed the poll effect runs after that
SendAck(s) ==
  /\ s \in sends
  /\ s.id # 0
  /\ sends' = sends \ {s}
  /\ sendingMessageId' = 0
  /\ outcome' = Outcome(s.tempId, s.id, "sent", FALSE, SelfDestructOn)
  /\ IF sendingMessageId # 0
     THEN PollEffect
     ELSE /\ items' = SortByTimestamp(ReplaceTemp(items, s.tempId, s.id))
          /\ sinceRef' = s.body.timestamp
          /\ UNCHANGED <<pollPc, inflight>>
  /\ UNCHANGED <<libVars, loopVars, relayVars, peerUsername, peerPubRef, convoKeyRef, lookup,
                 nextTemp, switches, tombstoned>>

\* items.filter(i => i.id !== tempId)
RemoveTemp(s, tempId) ==
  LET Keep(i) == i.id # tempId
  IN SelectSeq(s, Keep)

\* onSend, the catch block: sendMessage threw because the relay answered an
\* error or the request failed; sendingMessageId is cleared, the placeholder
\* filtered out and the alert shown; when sendingMessageId changed the poll
\* effect runs after that
SendFail(s) ==
  /\ s \in sends
  /\ sends' = sends \ {s}
  /\ sendingMessageId' = 0
  /\ outcome' = Outcome(s.tempId, 0, "failed", TRUE, FALSE)
  /\ IF sendingMessageId # 0
     THEN PollEffect
     ELSE /\ items' = RemoveTemp(items, s.tempId)
          /\ UNCHANGED <<sinceRef, pollPc, inflight>>
  /\ UNCHANGED <<libVars, loopVars, relayVars, peerUsername, peerPubRef, convoKeyRef, lookup,
                 nextTemp, switches, tombstoned>>

\* another party (or another session of the local user) sends a record
PeerSend(b) ==
  /\ Len(messages) < MaxMsgs
  /\ messages' = SendStore(messages, b)
  /\ UNCHANGED <<libVars, loopVars, users, request, reply, clientVars>>

\* a participant has the relay delete a record
PeerDelete(id, requester, t) ==
  /\ DeleteStatus(messages, id, requester) = 200
  /\ messages' = DeleteStore(messages, id, requester, t)
  /\ UNCHANGED <<libVars, loopVars, users, request, reply, clientVars>>

Next ==
  \/ \E p \in Peers : SwitchPeer(p)
  \/ LookupResolve
  \/ PollIssue
  \/ PollReceive
  \/ \E ts \in 1..MaxTime : OnSend("yo", ts)
  \/ \E s \in sends : RelayAccept(s)
  \/ \E s \in sends : SendAck(s)
  \/ \E b \in PeerBodies : PeerSend(b)
  \/ \E id \in 1..MaxMsgs, r \in {MeUser, Bob}, t \in 1..MaxTime : PeerDelete(id, r, t)

Spec == Init /\ [][Next]_vars

\* the client that keeps the conversation open, sends and polls, while the
\* peer sends; a send may fail
NextSending ==
  \/ LookupResolve
  \/ PollIssue
  \/ PollReceive
  \/ \E ts \in 1..MaxTime : OnSend("yo", ts)
  \/ \E s \in sends : RelayAccept(s)
  \/ \E s \in sends : SendAck(s)
  \/ \E s \in sends : SendFail(s)
  \/ \E b \in {pb \in PeerBodies : pb.from = Bob} : PeerSend(b)

\* the await of sendMessage ends: the request is answered or fails
SendSettles == \E s \in sends : SendAck(s) \/ SendFail(s)

\* the polls go on, as in SpecPolling, and every send request settles
SpecSending ==
  /\ Init
  /\ [][NextSending]_vars
  /\ WF_vars(LookupResolve) /\ WF_vars(PollIssue) /\ WF_vars(PollReceive)
  /\ WF_vars(SendSettles)

\* the client that keeps the conversation open and does nothing but poll,
\* while the other parties send and delete
NextPolling ==
  \/ LookupResolve
  \/ PollIssue
  \/ PollReceive
  \/ \E b \in PeerBodies : PeerSend(b)
  \/ \E id \in 1..MaxMsgs, r \in {MeUser, Bob}, t \in 1..MaxTime : PeerDelete(id, r, t)

\* the polls go on: the lookup is answered, setTimeout fires the next poll
\* and the relay answers it
SpecPolling ==
  /\ Init
  /\ [][NextPolling]_vars
  /\ WF_vars(LookupResolve) /\ WF_vars(PollIssue) /\ WF_vars(PollReceive)

\* --------------------------------------------------- relay: claims C6, C8-C10
\* the indices of the stored records that involve handle h
Involving(store, h) ==
  {i \in 1..Len(store) : store[i].from = h \/ store[i].to = h}

\* the elements of a sequence, as a set
Range(s) == {s[i] : i \in 1..Len(s)}

\* C6: a poll for a handle with cursor since returns in messages exactly the
\* stored records that involve the normalised handle, have timestamp >= since
\* and are not tombstoned, each once, and in deletions exactly the
\* {id, deletedAt} of the tombstoned records involving it with deletedAt >= since.
C6_PollExact ==
  request.op = "poll" =>
    LET mine == Involving(messages, Normalize(request.handle))
    IN /\ Range(reply.messages) =
            {messages[i] : i \in {j \in mine :
               messages[j].timestamp >= request.since /\ ~messages[j].deleted}}
       /\ Len(reply.messages) = Cardinality(Range(reply.messages))
       /\ Range(reply.deletions) =
            {[id |-> messages[i].id, deletedAt |-> messages[i].deletedAt] :
               i \in {j \in mine :
                 messages[j].deleted /\ messages[j].deletedAt >= request.since}}
       /\ Len(reply.deletions) = Cardinality(Range(reply.deletions))

\* C6 witness: a poll with since = 0 answered with a live record and a
\* tombstone while the store holds nothing else for that handle to hide
C6_Witness ==
  /\ request.op = "poll"
  /\ request.since = 0
  /\ Normalize(request.handle) = Alice
  /\ Len(reply.messages) = 1
  /\ Len(reply.deletions) = 1
  /\ \E i \in 1..Len(messages) : messages[i].deleted /\ messages[i].from = Carol
  /\ \E i \in 1..Len(messages) : ~messages[i].deleted /\ messages[i].from = Bob

Participant(store, id, requester) ==
  \E i \in 1..Len(store) :
    /\ store[i].id = id
    /\ Normalize(requester) \in {store[i].from, store[i].to}

\* what a delete may change: the tombstone fields of the record with this id
OnlyTombstones(store, after, id) ==
  /\ Len(after) = Len(store)
  /\ \A i \in 1..Len(store) :
       IF store[i].id = id
       THEN /\ after[i].deleted
            /\ [after[i] EXCEPT !.deleted = FALSE, !.deletedAt = 0] =
                 [store[i] EXCEPT !.deleted = FALSE, !.deletedAt = 0]
       ELSE after[i] = store[i]

\* C9 as stated: a delete tombstones the record when the requester is a
\* participant of the record with that id; otherwise the answer is 404 and
\* the store is unchanged.
C9_Original ==
  [][request'.op = "delete" =>
       IF Participant(messages, request'.id, request'.handle)
       THEN reply'.status = 200 /\ OnlyTombstones(messages, messages', request'.id)
       ELSE reply'.status = 404 /\ messages' = messages]_vars

\* C9 amended: as C9, except that a request without id or without requester
\* is answered 400 (still without changing the store).
C9_DeleteOnlyByParticipant ==
  [][request'.op = "delete" =>
       IF Participant(messages, request'.id, request'.handle)
       THEN reply'.status = 200 /\ OnlyTombstones(messages, messages', request'.id)
       ELSE /\ reply'.status =
                 (IF request'.id = 0 \/ request'.handle = <<>> THEN 400 ELSE 404)
            /\ messages' = messages]_vars

\* C9 witness: a delete by a handle that is no participant of any stored
\* record was answered 404 while a live record of two other handles is stored
C9_Witness ==
  /\ reply.op = "delete"
  /\ reply.status = 404
  /\ \E i \in 1..Len(messages) :
       messages[i].from = Carol /\ messages[i].to = Alice /\ ~messages[i].deleted

\* the rejection conditions C10 lists: from equals to after normalisation,
\* neither a non-empty ciphertext nor an attachment id, or a missing field
C10_Listed(b) ==
  \/ Normalize(b.from) = Normalize(b.to)
  \/ (b.ciphertext = EmptyCt /\ b.attachmentId = 0)
  \/ b.from = <<>>
  \/ b.to = <<>>
  \/ b.nonce = 0
  \/ b.fingerprint = NoKey
  \/ b.timestamp = 0

\* the conditions the relay applies on top: a handle that is blank, or a
\* ciphertext that is blank with no attachment id
C10_Blank(b) ==
  \/ Normalize(b.from) = <<>>
  \/ Normalize(b.to) = <<>>
  \/ (b.ciphertext = BlankCt /\ b.attachmentId = 0)

\* the store after an accepted send: the old records and one new one that
\* carries the body and an id no old record has
AppendsOne(store, after, b, id) ==
  /\ Len(after) = Len(store) + 1
  /\ SubSeq(after, 1, Len(store)) = store
  /\ after[Len(after)].id = id
  /\ \A i \in 1..Len(store) : store[i].id # id
  /\ after[Len(after)].from = Normalize(b.from)
  /\ after[Len(after)].to = Normalize(b.to)
  /\ after[Len(after)].ciphertext = b.ciphertext
  /\ after[Len(after)].nonce = b.nonce
  /\ after[Len(after)].fingerprint = b.fingerprint
  /\ after[Len(after)].timestamp = b.timestamp
  /\ ~after[Len(after)].deleted

RecordOf(item) == messages[item.id]

\* the entries of the timeline that carry the id of a stored record
Polled == {i \in 1..Len(items) : items[i].id > 0}

\* the key of the conversation with the peer that is open
ConversationKey == deriveSharedKey(MySecret, users[Normalize(peerUsername)])

\* C1: every entry of the timeline of the conversation with peer P comes from
\* a record whose normalised (from, to) is (me, P) or (P, me); a record
\* between me and a third handle is never in it.
C1_PairFilter ==
  \A i \in Polled :
    LET m == RecordOf(items[i])
        P == Normalize(peerUsername)
    IN \/ Normalize(m.from) = MeUser /\ Normalize(m.to) = P
       \/ Normalize(m.from) = P /\ Normalize(m.to) = MeUser

\* C1 witness: the conversation with Bob shows Bob's record while the store
\* holds an earlier live record Carol -> me that the same polls returned
C1_Witness ==
  /\ peerUsername = Bob
  /\ Len(messages) = 2
  /\ messages[1].from = Carol /\ messages[1].to = MeUser /\ ~messages[1].deleted
  /\ messages[2].from = Bob /\ ~messages[2].deleted
  /\ ItemIds(items) = {2}
  /\ nextTemp = 0

\* C2: once the key of peer P is resolved, no entry of the timeline comes
\* from a record P -> me whose fingerprint differs from the fingerprint of
\* that key.
C2_FingerprintIsolation ==
  lookup = "ok" =>
    \A i \in Polled :
      ~items[i].fromMe =>
        RecordOf(items[i]).fingerprint = fingerprintPublicKey(peerPubRef)

\* C3: merging a poll response into the timeline twice gives the timeline
\* that merging it once gives; the responses are the outstanding one and
\* those the relay would give now for each cursor.
C3_MergeIdempotent ==
  /\ pollPc = "inflight" =>
       LET once == Merge(items, inflight, inflight.since, CurrentCtx)
       IN Merge(once.items, inflight, inflight.since, CurrentCtx).items = once.items
  /\ convoKeyRef # {} =>
       \A since \in 0..MaxTime :
         LET R == PollReply(messages, MeUser, since)
             cx == MergeCtx(Normalize(peerUsername), convoKeyRef, peerPubRef,
                            sendingMessageId)
             once == Merge(items, R, since, cx)
         IN Merge(once.items, R, since, cx).items = once.items

\* C3 witness: a response is outstanding whose merge adds an entry to a
\* timeline that is not empty and removes one that a deletion names
C3_Witness ==
  /\ pollPc = "inflight"
  /\ items # <<>>
  /\ inflight.deletions # <<>>
  /\ LET once == Merge(items, inflight, inflight.since, CurrentCtx)
     IN /\ once.removed # {}
        /\ ItemIds(once.items) \ ItemIds(items) # {}

\* C4: no entry of the timeline comes from a record whose ciphertext does not
\* open under the key of the conversation, in either direction.
C4_NoUnauthenticated ==
  \A i \in Polled :
    LET m == RecordOf(items[i])
    IN HasText(m.ciphertext) =>
         decryptMessage(m.ciphertext, m.nonce, ConversationKey) # Null

\* C5: an entry the client removed because a poll response listed its id in
\* deletions is in no later timeline.
C5_TombstoneMonotone ==
  ItemIds(items) \cap tombstoned = {}

\* C5 witness: the client removed an entry on a deletion, has polled again
\* with a cursor the record's timestamp is not below, and shows another entry
C5_Witness ==
  /\ tombstoned # {}
  /\ items # <<>>
  /\ pollPc = "inflight"
  /\ \E id \in tombstoned : messages[id].timestamp >= inflight.since

\* C7: after the relay tombstoned a record, the client that keeps polling
\* eventually has no entry with its id in the timeline.
C7_DeletionPropagates ==
  \A id \in 1..MaxMsgs :
    (Len(messages) >= id /\ messages[id].deleted) ~> (id \notin ItemIds(items))

\* ------------------------------------------------------ relay: claim C11
\* spellings of the three handles, each with the identity it spells
Spellings ==
  {<<(<<"a">>), Alice>>, <<(<<"A", " ">>), Alice>>,
   <<(<<"b">>), Bob>>, <<(<<"B">>), Bob>>, <<(<<" ", "B">>), Bob>>,
   <<(<<"b", " ">>), Bob>>, <<(<<"c">>), Carol>>, <<(<<" ", "C", " ">>), Carol>>}

\* each spelling paired with the normalised spelling of its identity; two
\* spellings of one identity are both paired with the same one
SameHandle == {x \in Spellings : x[1] # x[2]}

\* the identities a registration of the relay's menu can name
Registrable == {x[2] : x \in {y \in Spellings : y[1] \in RegHandles}}

\* C11: for a spelling h of a handle h', Register(h, k) followed by
\* Lookup(h') returns k, and Send, Poll and Delete with h' do to the store and
\* return what they do with h; a Lookup that was served for a handle no
\* registration can have named is answered 404.
C11_HandlesNormalized ==
  /\ \A hh \in SameHandle :
       /\ \A k \in {PublicKey(2), PublicKey(3)} :
            /\ RegisterStatus(hh[1], k) = 200
            /\ LookupReply(RegisterUsers(users, hh[1], k), hh[2]).status = 200
            /\ LookupReply(RegisterUsers(users, hh[1], k), hh[2]).publicKey = k
       /\ LookupReply(users, hh[1]) = LookupReply(users, hh[2])
       /\ \A since \in 0..MaxTime :
            PollReply(messages, hh[1], since) = PollReply(messages, hh[2], since)
       /\ \A id \in 1..MaxMsgs, t \in 1..MaxTime :
            /\ DeleteStatus(messages, id, hh[1]) = DeleteStatus(messages, id, hh[2])
            /\ DeleteStore(messages, id, hh[1], t) = DeleteStore(messages, id, hh[2], t)
       /\ \A to \in {Alice, Carol} :
            /\ SendStore(messages, SendBody(hh[1], to, HiBox, 1, BobFp, 1, 0))
                 = SendStore(messages, SendBody(hh[2], to, HiBox, 1, BobFp, 1, 0))
            /\ SendStore(messages, SendBody(to, hh[1], HiBox, 1, BobFp, 1, 0))
                 = SendStore(messages, SendBody(to, hh[2], HiBox, 1, BobFp, 1, 0))
  /\ (request.op = "lookup"
        /\ \E x \in Spellings : x[1] = request.handle /\ x[2] \notin Registrable)
       => reply.status = 404

\* C11 witness: the key registered as " B" was returned by a lookup of "b"
\* while the store holds a record sent as "A " -> " B" that Bob tombstoned
C11_Witness ==
  /\ request.op = "lookup"
  /\ request.handle = Bob
  /\ reply.status = 200
  /\ reply.publicKey = PublicKey(2)
  /\ \E i \in 1..Len(messages) :
       messages[i].from = Alice /\ messages[i].to = Bob /\ messages[i].deleted

\* ------------------------------------------------ attachments and two runs
MaxBlobs == 1

\* a byte string is named by a string; ByteSeq gives its bytes
ByteSeq(b) ==
  CASE b = "png-a" -> <<137, 80, 78, 71, 13, 10, 26, 10, 1>>
    [] b = "png-b" -> <<137, 80, 78, 71, 13, 10, 26, 10, 2>>
    [] b = "pdf-a" -> <<37, 80, 68, 70, 1>>
    [] b = "gif-a" -> <<71, 73, 70, 56>>
    [] OTHER -> <<>>

\* POST /upload: the blob is moved into the attachments directory under a
\* fresh id, here its index
UploadStore(store, blob) == Append(store, blob)
UploadId(store) == Len(store) + 1

\* a picked file: its bytes, the MIME type and the name the picker reports
PickedAttachment(bytes, mime, name) ==
  [bytes |-> bytes, mime |-> mime, name |-> name]

\* encryptAndUploadAttachment: the blob it uploads
AttachmentBlob(att, key, n) == encryptMessage(att.bytes, key, n).ciphertext

\* encryptAndUploadAttachment: its result, given the id the relay returned
AttachmentEnc(att, key, n, id) ==
  [id |-> id, nonce |-> encryptMessage(att.bytes, key, n).nonce,
   mime |-> att.mime, name |-> att.name]

\* sendAttachmentMessage: the body of the send request
AttachmentPayload(enc, peer, ts) ==
  [from |-> Normalize(MeUser), to |-> Normalize(peer), ciphertext |-> EmptyCt,
   nonce |-> enc.nonce, fingerprint |-> fingerprintPublicKey(MyPublic),
   timestamp |-> ts, attachmentId |-> enc.id, mime |-> enc.mime,
   name |-> IF enc.name = "" THEN "Voice message" ELSE enc.name]

\* the multipart body of POST /upload as a request: the blob travels in
\* the ciphertext field
UploadRequest(blob) ==
  Request("upload", <<>>, 0, 0, NoKey, [NoBody EXCEPT !.ciphertext = blob])

\* plaintexts of equal length, by pairs: what the first and the second run seal
TextPairs == {<<"hi", "hi">>, <<"hi", "yo">>, <<"yo", "hi">>}
FilePairs == {<<"png-a", "png-b">>, <<"png-b", "png-b">>}

\* both runs: the user sends a text; the runs differ in the text only
TwinSendText(pair, ts) ==
  /\ convoKeyRef # {}
  /\ Len(messages) < MaxMsgs
  /\ LET a == TextPayload(pair[1], 1, convoKeyRef, peerUsername, ts)
         b == TextPayload(pair[2], 1, convoKeyRef, peerUsername, ts)
     IN /\ messages' = SendStore(messages, a)
        /\ request' = Request("send", <<>>, 0, 0, NoKey, a)
        /\ reply' = SendReply(messages, a)
        /\ twin' = [twin EXCEPT !.messages = SendStore(twin.messages, b),
                                !.request = Request("send", <<>>, 0, 0, NoKey, b)]
  /\ UNCHANGED <<users, clientVars, blobs, call>>

\* both runs: the user attaches a file, which is sealed and uploaded, and
\* the attachment message is sent; the runs differ in the bytes only
TwinSendAttachment(pair, mime, name, ts) ==
  /\ convoKeyRef # {}
  /\ Len(messages) < MaxMsgs
  /\ Len(blobs) < MaxBlobs
  /\ LET attA == PickedAttachment(pair[1], mime, name)
         attB == PickedAttachment(pair[2], mime, name)
         encA == AttachmentEnc(attA, convoKeyRef, 1, UploadId(blobs))
         encB == AttachmentEnc(attB, convoKeyRef, 1, UploadId(twin.blobs))
         a == AttachmentPayload(encA, peerUsername, ts)
         b == AttachmentPayload(encB, peerUsername, ts)
     IN /\ blobs' = UploadStore(blobs, AttachmentBlob(attA, convoKeyRef, 1))
        /\ messages' = SendStore(messages, a)
        /\ request' = Request("send", <<>>, 0, 0, NoKey, a)
        /\ reply' = SendReply(messages, a)
        /\ twin' = [messages |-> SendStore(twin.messages, b),
                    blobs |-> UploadStore(twin.blobs,
                                          AttachmentBlob(attB, convoKeyRef, 1)),
                    request |-> Request("send", <<>>, 0, 0, NoKey, b)]
  /\ UNCHANGED <<users, clientVars, call>>

\* both runs: the user uploads a sealed file and does not send the message
TwinUpload(pair) ==
  /\ convoKeyRef # {}
  /\ Len(blobs) < MaxBlobs
  /\ LET blobA == AttachmentBlob(PickedAttachment(pair[1], "", ""), convoKeyRef, 1)
         blobB == AttachmentBlob(PickedAttachment(pair[2], "", ""), convoKeyRef, 1)
     IN /\ blobs' = UploadStore(blobs, blobA)
        /\ request' = UploadRequest(blobA)
        /\ reply' = Reply("upload", 200, UploadId(blobs), <<>>, <<>>, NoKey)
        /\ twin' = [twin EXCEPT !.blobs = UploadStore(twin.blobs, blobB),
                                !.request = UploadRequest(blobB)]
  /\ UNCHANGED <<users, messages, clientVars, call>>

\* both runs: the client registers, looks its peer up, polls or deletes
TwinRegister ==
  /\ Register(MeUser, MyPublic)
  /\ twin' = [twin EXCEPT !.request = request']
  /\ UNCHANGED <<clientVars, blobs, call>>

TwinLookup ==
  /\ Lookup(Normalize(peerUsername))
  /\ twin' = [twin EXCEPT !.request = request']
  /\ UNCHANGED <<clientVars, blobs, call>>

TwinPoll(since) ==
  /\ Poll(MeUser, since)
  /\ twin' = [twin EXCEPT !.request = request']
  /\ UNCHANGED <<clientVars, blobs, call>>

TwinDelete(id, t) ==
  /\ Delete(id, MeUser, t)
  /\ twin' = [twin EXCEPT !.messages = DeleteStore(twin.messages, id, MeUser, t),
                          !.request = request']
  /\ UNCHANGED <<clientVars, blobs, call>>

NextTwin ==
  \/ LookupResolve
  \/ TwinRegister
  \/ TwinLookup
  \/ \E pair \in TextPairs, ts \in 1..MaxTime : TwinSendText(pair, ts)
  \/ \E pair \in FilePairs, ts \in 1..MaxTime :
       TwinSendAttachment(pair, "image/png", "a.png", ts)
  \/ \E pair \in FilePairs : TwinUpload(pair)
  \/ \E since \in 0..MaxTime : TwinPoll(since)
  \/ \E id \in 1..MaxMsgs, t \in 1..MaxTime : TwinDelete(id, t)

SpecTwin == Init /\ [][NextTwin]_vars

\* ------------------------------------------------------------- claim C12
\* what the relay can read of a ciphertext: whether it is empty, blank or
\* a sealed box
Visible(ct) == ct.kind

\* two records, or two request bodies, that differ in ciphertext bytes only
SameButCiphertext(a, b) ==
  /\ [a EXCEPT !.ciphertext = EmptyCt] = [b EXCEPT !.ciphertext = EmptyCt]
  /\ Visible(a.ciphertext) = Visible(b.ciphertext)

SameStores(a, b) ==
  /\ Len(a) = Len(b)
  /\ \A i \in 1..Len(a) : SameButCiphertext(a[i], b[i])

SameBlobs(a, b) ==
  /\ Len(a) = Len(b)
  /\ \A i \in 1..Len(a) : Visible(a[i]) = Visible(b[i])

\* a ciphertext of the local client is empty or a box sealed under the
\* conversation key, and no cleartext field of the request is a plaintext
\* or holds anything but the public key
Sealed(ct) == ct = EmptyCt \/ (ct.kind = "box" /\ ct.k = convoKeyRef /\ ct.k # {})

Plaintexts == {"hi", "yo", "png-a", "png-b"}

NoCleartext(r) ==
  /\ Sealed(r.body.ciphertext)
  /\ r.publicKey \in {NoKey, MyPublic}
  /\ r.body.fingerprint \in {NoKey, fingerprintPublicKey(MyPublic)}
  /\ r.body.name \notin Plaintexts
  /\ r.body.mime \notin Plaintexts

Keypair(i) == [publicKey |-> PublicKey(i), secretKey |-> i]

\* inputs of the library calls
Texts == {"", "hi", "yo"}
Nonces == {1, 2}
Keys == {deriveSharedKey(Keypair(a).secretKey, Keypair(b).publicKey) :
           a \in Ids, b \in Ids}

\* a party derives the conversation key with a peer
CallDerive(a, b) ==
  /\ call' = [op |-> "deriveSharedKey", mine |-> Keypair(a), peer |-> Keypair(b),
              out |-> deriveSharedKey(Keypair(a).secretKey, Keypair(b).publicKey)]
  /\ UNCHANGED <<relayVars, clientVars, blobs, twin>>

\* a plaintext is sealed under a key; n is the nonce randomBytes draws
CallEncrypt(p, k, n) ==
  /\ call' = [op |-> "encryptMessage", plaintext |-> p, key |-> k,
              out |-> encryptMessage(p, k, n)]
  /\ UNCHANGED <<relayVars, clientVars, blobs, twin>>

\* the ciphertext just produced is opened, with the nonce returned or
\* another one, under the same key or another one
CallDecrypt(n, k) ==
  /\ call.op = "encryptMessage"
  /\ call' = [op |-> "decryptMessage", sealed |-> call, nonce |-> n, key |-> k,
              out |-> decryptMessage(call.out.ciphertext, n, k)]
  /\ UNCHANGED <<relayVars, clientVars, blobs, twin>>

\* party a seals a text for party b, who opens it under the key derived on
\* its own side
CallExchange(a, b, p, n) ==
  /\ a # b
  /\ LET sent == encryptMessage(p, deriveSharedKey(Keypair(a).secretKey,
                                                   Keypair(b).publicKey), n)
     IN call' = [op |-> "exchange", from |-> Keypair(a), to |-> Keypair(b),
                 plaintext |-> p, sent |-> sent,
                 out |-> decryptMessage(sent.ciphertext, sent.nonce,
                                        deriveSharedKey(Keypair(b).secretKey,
                                                        Keypair(a).publicKey))]
  /\ UNCHANGED <<relayVars, clientVars, blobs, twin>>

\* detectMime: the type the leading bytes of a file tell
detectMime(b) ==
  LET bytes == ByteSeq(b)
  IN IF Len(bytes) >= 8 /\ bytes[1] = 137 /\ bytes[2] = 80 /\ bytes[3] = 78
        /\ bytes[4] = 71
     THEN "image/png"
     ELSE IF Len(bytes) >= 3 /\ bytes[1] = 255 /\ bytes[2] = 216 /\ bytes[3] = 255
     THEN "image/jpeg"
     ELSE IF Len(bytes) >= 3 /\ bytes[1] = 71 /\ bytes[2] = 73 /\ bytes[3] = 70
     THEN "image/gif"
     ELSE IF Len(bytes) >= 12 /\ bytes[1] = 82 /\ bytes[2] = 73 /\ bytes[3] = 70
             /\ bytes[4] = 70 /\ bytes[9] = 87 /\ bytes[10] = 69
             /\ bytes[11] = 66 /\ bytes[12] = 80
     THEN "image/webp"
     ELSE "application/octet-stream"

\* the outcome of an operation that throws, or returns null, instead of
\* returning bytes
Failed(error) == [ok |-> FALSE, error |-> error, bytes |-> "", mime |-> ""]

\* downloadAndDecryptAttachment, accepting whatever bytes it downloaded
downloadAndDecryptAttachment_NoCheck(store, id, nonce, key) ==
  IF id \notin 1..Len(store)
  THEN Failed("download failed")
  ELSE [ok |-> TRUE, error |-> "", bytes |-> store[id].p,
        mime |-> detectMime(store[id].p)]

\* downloadAndDecryptAttachment: GET /download/:id answers 404 for an
\* unknown id, which downloadAttachment throws on; a failed open throws
downloadAndDecryptAttachment(store, id, nonce, key) ==
  IF id \notin 1..Len(store)
  THEN Failed("download failed")
  ELSE IF decryptMessage(store[id], nonce, key) = Null
  THEN Failed("Decryption failed")
  ELSE [ok |-> TRUE, error |-> "",
        bytes |-> decryptMessage(store[id], nonce, key),
        mime |-> detectMime(decryptMessage(store[id], nonce, key))]

\* the type under which ChatScreen opens a downloaded attachment: the one
\* of the timeline entry, else the detected one
OpenMime(itemMime, result) ==
  IF itemMime # "" THEN itemMime
  ELSE IF result.mime # "" THEN result.mime
  ELSE "application/octet-stream"

\* the type a timeline entry carries for an attachment: the mime field of
\* the record the relay stored for the send request
ItemMime(enc) == StoredMessage(1, AttachmentPayload(enc, Bob, 1)).mime

\* encryptFile and decryptFile of the libsodium library
encryptFile(file, key, n) ==
  [encryptedBlob |-> Box(file.bytes, n, key), nonce |-> n,
   mimeType |-> IF file.mime = "" THEN "application/octet-stream" ELSE file.mime]

decryptFile(encryptedBlob, nonce, key, mimeType) ==
  IF decryptMessage(encryptedBlob, nonce, key) = Null
  THEN Failed("null")
  ELSE [ok |-> TRUE, error |-> "",
        bytes |-> decryptMessage(encryptedBlob, nonce, key), mime |-> mimeType]

\* a blob that was altered in storage or in transit
Altered(ct) == [ct EXCEPT !.kind = "altered"]

\* files the user picks: the declared type need not be what the bytes tell
FileBytes == {"", "png-a", "pdf-a", "gif-a"}
FileTypes == {"", "image/png", "application/pdf"}
PairKeys == {k \in Keys : Cardinality(k) = 2}

\* a file is sealed and uploaded
CallUpload(att, k, n) ==
  /\ Len(blobs) < MaxBlobs
  /\ blobs' = UploadStore(blobs, AttachmentBlob(att, k, n))
  /\ call' = [op |-> "encryptAndUploadAttachment", att |-> att, key |-> k,
              out |-> AttachmentEnc(att, k, n, UploadId(blobs))]
  /\ UNCHANGED <<relayVars, clientVars, twin>>

\* the relay, or the network, alters a stored blob
Corrupt(id) ==
  /\ id \in 1..Len(blobs)
  /\ blobs[id].kind = "box"
  /\ blobs' = [blobs EXCEPT ![id] = Altered(@)]
  /\ UNCHANGED <<relayVars, clientVars, twin, call>>

\* the attachment just uploaded, or another id, is downloaded and opened
CallDownload(id, n, k) ==
  /\ call.op = "encryptAndUploadAttachment"
  /\ \E result \in {downloadAndDecryptAttachment(blobs, id, n, k)} :
       call' = [op |-> "downloadAndDecryptAttachment", sealed |-> call,
                id |-> id, nonce |-> n, key |-> k,
                intact |-> (id \in 1..Len(blobs) /\ blobs[id].kind = "box"),
                out |-> result,
                mime |-> OpenMime(ItemMime(call.out), result)]
  /\ UNCHANGED <<relayVars, clientVars, blobs, twin>>

\* a file is sealed by encryptFile
CallEncryptFile(file, k, n) ==
  /\ call' = [op |-> "encryptFile", att |-> file, key |-> k,
              out |-> encryptFile(file, k, n)]
  /\ UNCHANGED <<relayVars, clientVars, blobs, twin>>

\* the blob just sealed, or an altered one, is opened by decryptFile
CallDecryptFile(n, k, altered) ==
  /\ call.op = "encryptFile"
  /\ LET blob == IF altered THEN Altered(call.out.encryptedBlob)
                 ELSE call.out.encryptedBlob
     IN call' = [op |-> "decryptFile", sealed |-> call, nonce |-> n, key |-> k,
                 intact |-> ~altered,
                 out |-> decryptFile(blob, n, k, call.out.mimeType)]
  /\ UNCHANGED <<relayVars, clientVars, blobs, twin>>

\* ---- sealed export of the private key: encryptPrivateKey, decryptPrivateKey
Passwords == {"pw1", "pw2"}
Salts == {1, 2}

\* crypto_pwhash: the key a password and a salt give
pwhash(password, salt) == {<<password, salt>>}

\* a byte string as the chunks it is made of: a 24-byte nonce, a sealed
\* box, or a part cut out of a chunk
NonceBytes(n) == [kind |-> "nonce", n |-> n]

\* slice(0, NONCEBYTES) and slice(NONCEBYTES) of a byte string: the leading
\* 24 bytes are a chunk of their own only when the string starts with a nonce
SliceNonce(bytes) ==
  IF bytes[1].kind = "nonce" THEN bytes[1]
  ELSE [kind |-> "cut", n |-> 0]

SliceRest(bytes) ==
  IF bytes[1].kind = "nonce" /\ Len(bytes) = 2 THEN bytes[2]
  ELSE [kind |-> "cut", k |-> {}, n |-> 0, p |-> 0]

\* crypto_secretbox_open_easy under a nonce given as bytes
OpenEasy(ct, nonce, key) ==
  IF ct.kind = "box" /\ nonce.kind = "nonce" /\ ct.n = nonce.n /\ ct.k = key
  THEN [ok |-> TRUE, key |-> ct.p]
  ELSE [ok |-> FALSE, key |-> 0]

\* encryptPrivateKey: the box alone is returned as encrypted, with the salt
encryptPrivateKey(privateKey, password, salt, n) ==
  [encrypted |-> <<Box(privateKey, n, pwhash(password, salt))>>, salt |-> salt]

\* decryptPrivateKey: null (ok = FALSE) when the open fails
decryptPrivateKey(encrypted, salt, password) ==
  OpenEasy(SliceRest(encrypted), SliceNonce(encrypted), pwhash(password, salt))

\* ---- sealed export of the keypair: SettingsScreen onExport, onImport
RECURSIVE Xor(_, _)
Xor(a, b) ==
  IF a = 0 THEN b
  ELSE IF b = 0 THEN a
  ELSE (((a % 2) + (b % 2)) % 2) + (2 * Xor(a \div 2, b \div 2))

\* deriveKey: the iterated SHA-256 digest of the passphrase, as bytes
deriveKey(pass) == IF pass = "demo-passphrase" THEN <<5, 2>> ELSE <<3, 6>>

\* k.repeat(...).slice(0, len)
Mask(k, len) == [i \in 1..len |-> k[((i - 1) % Len(k)) + 1]]

\* xorHex: byte by byte over the shorter of the two
xorHex(a, b) ==
  [i \in 1..(IF Len(a) < Len(b) THEN Len(a) ELSE Len(b)) |-> Xor(a[i], b[i])]

\* the byte that stands for the syntax of the JSON text (braces, quotes and
\* field names); the bytes after it are the contents of the two strings
Brace == 4

\* the result of JSON.parse: the value, or ok = FALSE where it throws
Parsed(ok, kp) == [ok |-> ok, kp |-> kp]

NoKeypair == [publicKey |-> <<>>, secretKey |-> 0]

\* JSON.stringify(kp) as bytes, and JSON.parse of such bytes: text whose
\* syntax is damaged does not parse, text whose string contents are damaged
\* parses to other strings
Stringify(kp) == <<Brace>> \o kp.publicKey \o <<kp.secretKey>>
Parse(bytes) ==
  IF Len(bytes) >= 2 /\ bytes[1] = Brace
  THEN Parsed(TRUE, [publicKey |-> SubSeq(bytes, 2, Len(bytes) - 1),
                     secretKey |-> bytes[Len(bytes)]])
  ELSE Parsed(FALSE, NoKeypair)

\* onExport: the contents of the backup file
onExport(kp, pass) ==
  xorHex(Stringify(kp), Mask(deriveKey(pass), Len(Stringify(kp))))

\* onImport: the keypair it hands to storeKeypair, or the throw of JSON.parse
onImport(sealed, pass) ==
  Parse(xorHex(sealed, Mask(deriveKey(pass), Len(sealed))))

\* the private key of identity i is sealed under a password
CallEncryptPrivateKey(i, password, salt, n) ==
  /\ call' = [op |-> "encryptPrivateKey", identity |-> Keypair(i),
              password |-> password,
              out |-> encryptPrivateKey(Keypair(i).secretKey, password, salt, n)]
  /\ UNCHANGED <<relayVars, clientVars, blobs, twin>>

\* the blob and salt just produced are opened under a password
CallDecryptPrivateKey(password) ==
  /\ call.op = "encryptPrivateKey"
  /\ call' = [op |-> "decryptPrivateKey", sealed |-> call, password |-> password,
              out |-> decryptPrivateKey(call.out.encrypted, call.out.salt, password)]
  /\ UNCHANGED <<relayVars, clientVars, blobs, twin>>

\* SettingsScreen: the keypair of identity i is exported
CallOnExport(i) ==
  /\ call' = [op |-> "onExport", identity |-> Keypair(i),
              out |-> onExport(Keypair(i), "demo-passphrase")]
  /\ UNCHANGED <<relayVars, clientVars, blobs, twin>>

\* SettingsScreen: the backup just written is imported
CallOnImport ==
  /\ call.op = "onExport"
  /\ call' = [op |-> "onImport", sealed |-> call,
              out |-> onImport(call.out, "demo-passphrase")]
  /\ UNCHANGED <<relayVars, clientVars, blobs, twin>>

\* the passphrases a backup file may have been sealed under
Passphrases == {"demo-passphrase", "other-passphrase"}

\* a backup file: the export of an identity under a passphrase, with the
\* byte at position `at` altered (at = 0: the file as it was written)
Damage(bytes, at) ==
  IF at \in 1..Len(bytes) THEN [bytes EXCEPT ![at] = Xor(@, 1)] ELSE bytes

BackupFile(i, pass, at) ==
  [identity |-> Keypair(i), pass |-> pass, at |-> at,
   sealed |-> Damage(onExport(Keypair(i), pass), at)]

BackupFiles ==
  {BackupFile(i, pass, at) : i \in Ids, pass \in Passphrases, at \in 0..4}

\* storeKeypair: two awaited writes, the public key first; failAt is the
\* write at which the credential store throws (0: neither)
storeKeypair(store, kp, failAt) ==
  IF failAt = 1 THEN store
  ELSE IF failAt = 2 THEN [store EXCEPT !.publicKey = kp.publicKey]
  ELSE kp

\* SettingsScreen onImport: the picked file is unmasked under the built-in
\* passphrase and parsed, and the result is stored; a throw of JSON.parse or
\* of a write is caught and alerted
OnImport(file, failAt) ==
  /\ \E r \in {onImport(file.sealed, "demo-passphrase")} :
       /\ secureStore' = IF r.ok THEN storeKeypair(secureStore, r.kp, failAt)
                                 ELSE secureStore
       /\ call' = [op |-> "import", file |-> file, before |-> secureStore,
                   alert |-> IF r.ok /\ failAt = 0 THEN "Imported"
                                                    ELSE "Import failed"]
  /\ UNCHANGED <<relayVars, peerUsername, items, sinceRef, sendingMessageId,
                 peerPubRef, convoKeyRef, lookup, pollPc, inflight, outcome,
                 sends, nextTemp, switches, tombstoned, blobs, twin, stale,
                 composing, destruct, pollErrors>>

NextBackup ==
  \E file \in BackupFiles, failAt \in 0..2 : OnImport(file, failAt)

SpecBackup == InitRelay /\ [][NextBackup]_vars

NextCrypto ==
  \/ \E a \in Ids, b \in Ids : CallDerive(a, b)
  \/ \E p \in Texts, k \in Keys, n \in Nonces : CallEncrypt(p, k, n)
  \/ \E n \in Nonces, k \in Keys : CallDecrypt(n, k)
  \/ \E a \in Ids, b \in Ids, p \in Texts, n \in Nonces : CallExchange(a, b, p, n)
  \/ \E i \in Ids, pw \in Passwords, salt \in Salts, n \in Nonces :
       CallEncryptPrivateKey(i, pw, salt, n)
  \/ \E pw \in Passwords : CallDecryptPrivateKey(pw)
  \/ \E i \in Ids : CallOnExport(i)
  \/ CallOnImport

SpecCrypto == InitRelay /\ [][NextCrypto]_vars

\* the attachment functions, under the conversation keys of two parties
NextAttachments ==
  \/ \E b \in FileBytes, t \in FileTypes, k \in PairKeys, n \in Nonces :
       CallUpload(PickedAttachment(b, t, "a"), k, n)
  \/ \E id \in 1..MaxBlobs : Corrupt(id)
  \/ \E id \in 1..(MaxBlobs + 1), n \in Nonces, k \in PairKeys :
       CallDownload(id, n, k)
  \/ \E b \in FileBytes, t \in FileTypes, k \in PairKeys, n \in Nonces :
       CallEncryptFile(PickedAttachment(b, t, "a"), k, n)
  \/ \E n \in Nonces, k \in PairKeys, altered \in BOOLEAN :
       CallDecryptFile(n, k, altered)

SpecAttachments == InitRelay /\ [][NextAttachments]_vars


C15_SameInputs ==
  /\ call.nonce = call.sealed.out.nonce
  /\ call.key = call.sealed.key
  /\ call.op = "downloadAndDecryptAttachment" => call.id = call.sealed.out.id

\* C15: downloading and opening the blob of an upload with the id and the
\* nonce the upload returned and the same key yields exactly the bytes
\* uploaded, and a declared type is the type the attachment is opened
\* under; with another key, another nonce or an altered blob the operation
\* fails and returns no bytes. The same holds of encryptFile and decryptFile.
C15_AttachmentExactOrFails ==
  call.op \in {"downloadAndDecryptAttachment", "decryptFile"} =>
    IF C15_SameInputs /\ call.intact
    THEN /\ call.out.ok
         /\ call.out.bytes = call.sealed.att.bytes
         /\ (call.op = "downloadAndDecryptAttachment" /\ call.sealed.att.mime # "")
              => call.mime = call.sealed.att.mime
         /\ (call.op = "decryptFile" /\ call.sealed.att.mime # "")
              => call.out.mime = call.sealed.att.mime
    ELSE (call.op = "decryptFile" \/ call.id = call.sealed.out.id) =>
           (~call.out.ok /\ call.out.bytes = "")

\* a file whose declared type is not what its bytes tell came back exact
\* and under its declared type
C15_Witness ==
  /\ call.op = "downloadAndDecryptAttachment"
  /\ C15_SameInputs
  /\ call.intact
  /\ call.out.bytes = "pdf-a"
  /\ call.out.mime = "application/octet-stream"
  /\ call.mime = "application/pdf"

\* ------------------------------------------------------------- claim C16
\* C16: importing, with the passphrase of the export, the sealed blob and
\* salt that the export produced returns exactly the original private key.
C16_SealedRoundTrip ==
  /\ (call.op = "decryptPrivateKey" /\ call.password = call.sealed.password) =>
       (call.out.ok /\ call.out.key = call.sealed.identity.secretKey)
  /\ call.op = "onImport" => call.out = Parsed(TRUE, call.sealed.identity)

\* the part of C16 that holds: the backup of SettingsScreen restores the
\* keypair
C16_BackupRestores ==
  call.op = "onImport" =>
    /\ call.out = Parsed(TRUE, call.sealed.identity)
    /\ call.sealed.out # Stringify(call.out.kp)

\* ------------------------------------------------ client: claims C17-C20
\* the timeline entries that carry the id
EntriesOf(id) == {i \in 1..Len(items) : items[i].id = id}

\* the timeline has exactly one entry for the record id, with status sent,
\* and no entry under a temporary id
Settled(id) ==
  /\ Cardinality(EntriesOf(id)) = 1
  /\ \A i \in EntriesOf(id) : items[i].status = "sent" /\ items[i].fromMe
  /\ \A i \in 1..Len(items) : items[i].id > 0

\* the relay accepted the record id from the local user to the open peer
OwnAccepted(id) ==
  /\ id \in 1..Len(messages)
  /\ messages[id].from = MeUser
  /\ messages[id].to = Normalize(peerUsername)

\* C17: after the relay accepted a send, the timeline ends up with exactly
\* one entry for the record, under the id the relay assigned and with
\* status sent, and with no entry under a temporary id, whichever of the
\* acknowledgement and the poll response with the record comes first.
C17_SentOnce ==
  \A id \in 1..MaxMsgs : OwnAccepted(id) ~> [](OwnAccepted(id) => Settled(id))

\* the poll response with the record was processed before the
\* acknowledgement, which is still to come, and the entry is there
C17_Witness ==
  \E s \in sends :
    /\ s.id # 0
    /\ sendingMessageId = 0
    /\ Settled(s.id)

\* the step in which a send fails: the catch block of onSend has run
Failing == outcome.result = "none" /\ outcome'.result = "failed"

\* C18: when a send is rejected or its request fails, the placeholder of
\* that send is removed, every other timeline entry is left as it was, the
\* error is shown to the user and no self-destruct timer is scheduled.
C18_FailureRemovesPlaceholderOnly ==
  [][Failing =>
       /\ items' = RemoveTemp(items, outcome'.tempId)
       /\ outcome'.alert
       /\ ~outcome'.timer]_vars

\* the part of C18 that holds: after the failure no entry carries the
\* temporary id, the error is shown and no timer is scheduled
C18_FailureSurfaced ==
  [][Failing =>
       /\ \A i \in 1..Len(items') : items'[i].id # outcome'.tempId
       /\ outcome'.alert
       /\ ~outcome'.timer]_vars

RECURSIVE MaxCreated(_, _)
\* the maximum of since and the timestamp of every record of msgs
MaxCreated(since, msgs) ==
  IF msgs = <<>> THEN since
  ELSE MaxCreated(Max(since, Head(msgs).timestamp), Tail(msgs))

\* the step in which the response of the outstanding poll is merged
Merged ==
  /\ pollPc = "inflight"
  /\ pollPc' # "inflight"
  /\ UNCHANGED <<relayVars, peerUsername, sends, nextTemp, outcome>>

\* the conversation is open and stays open over the step
StaysOpen == peerUsername' = peerUsername /\ lookup = "ok" /\ lookup' = "ok"

\* C19, first part: while the conversation stays open the cursor never
\* decreases
C19_NeverDecreases == [][StaysOpen => sinceRef' >= sinceRef]_vars

\* C19, second part: after a poll response is merged the cursor is the
\* maximum of its previous value and the timestamps of the response
C19_MergeTakesMax ==
  [][StaysOpen /\ Merged => sinceRef' = MaxCreated(sinceRef, inflight.messages)]_vars

\* C19, third part: no other step moves the cursor
C19_OnlyMergeMoves == [][StaysOpen /\ ~Merged => sinceRef' = sinceRef]_vars

\* C19: the poll cursor is a watermark: while the conversation stays open
\* it never decreases, a merged poll response sets it to the maximum of its
\* previous value and the timestamp of every record of the response, and no
\* other step (send, acknowledgement, deletion) moves it.
C19_CursorWatermark ==
  [][StaysOpen =>
       /\ sinceRef' >= sinceRef
       /\ Merged => sinceRef' = MaxCreated(sinceRef, inflight.messages)
       /\ ~Merged => sinceRef' = sinceRef]_vars

\* a poll request is outstanding: poll(user, since) was called and its
\* response has not arrived
Outstanding == pollPc \in {"sent", "inflight"}

\* the step calls poll(user, since): the loop runs from its timer, or the
\* poll effect runs again and starts a new loop at once
PollStarted ==
  \/ pollPc = "timer" /\ pollPc' = "inflight"
  \/ /\ pollPc' = "sent"
     /\ sendingMessageId' # sendingMessageId \/ peerUsername' # peerUsername

\* C20: at most one poll request is outstanding for the open conversation:
\* a new poll is issued only after the previous one has completed, also
\* when a send, an acknowledgement or a cursor update restarts the polling
\* effect.
C20_OnePollOutstanding == [][PollStarted => ~Outstanding]_vars

\* ------------------------------------------- client: the loop left behind
\* the cleanup of the poll effect: isMounted is set to false and the timer
\* cleared; a loop that awaits its poll is left to end by itself
Cleanup ==
  IF pollPc \in {"sent", "inflight"}
  THEN OldLoop("inflight", pollPc = "inflight", Normalize(peerUsername), inflight)
  ELSE NoOldLoop

\* the loop after await poll, without the test of isMounted
LoopAfterAwait_NoMountCheck(isMounted, prev, since, r, cx) ==
  LET mg == Merge(prev, r, r.since, cx)
  IN [items |-> mg.items,
      since |-> IF mg.hasNew \/ mg.since # r.since THEN mg.since ELSE since,
      pc |-> "timer"]

\* the loop after await poll: an unmounted loop returns at once, a mounted
\* one merges the response, stores the cursor and sets its timer
LoopAfterAwait(isMounted, prev, since, r, cx) ==
  IF ~isMounted
  THEN [items |-> prev, since |-> since, pc |-> "none"]
  ELSE LET mg == Merge(prev, r, r.since, cx)
       IN [items |-> mg.items,
           since |-> IF mg.hasNew \/ mg.since # r.since THEN mg.since ELSE since,
           pc |-> "timer"]

\* the user opens the conversation with another peer while the loop of the
\* old one may await its poll: SwitchPeer, with the old loop kept; one old
\* loop is followed at a time
SwitchPeerLeaving(p) ==
  /\ p # peerUsername
  /\ stale.pc # "inflight"
  /\ switches < MaxSwitches
  /\ switches' = switches + 1
  /\ peerUsername' = p
  /\ lookup' = "pending"
  /\ stale' = Cleanup
  /\ PollEffect
  /\ UNCHANGED <<libVars, composing, destruct, pollErrors, secureStore,
                 relayVars, sendingMessageId, peerPubRef, convoKeyRef,
                 outcome, sends, nextTemp, tombstoned>>

\* the user closes the conversation: ChatScreen is unmounted, the cleanups
\* of both effects run and the state of the component is gone
Close ==
  /\ peerUsername # <<>>
  /\ stale.pc # "inflight"
  /\ switches < MaxSwitches
  /\ switches' = switches + 1
  /\ peerUsername' = <<>>
  /\ lookup' = "none"
  /\ stale' = Cleanup
  /\ items' = <<>>
  /\ sinceRef' = 0
  /\ pollPc' = "none"
  /\ inflight' = NoPoll
  /\ UNCHANGED <<libVars, composing, destruct, pollErrors, secureStore,
                 relayVars, sendingMessageId, peerPubRef, convoKeyRef,
                 outcome, sends, nextTemp, tombstoned>>

\* the relay's answer to the poll of the old loop arrives: the loop goes on
\* after its await with isMounted false
StaleReceive ==
  /\ stale.pc = "inflight"
  /\ LET r == IF stale.served THEN stale.poll
              ELSE PollInFlight(stale.poll.since, stale.poll.key,
                                PollReply(messages, MeUser, stale.poll.since))
         cx == MergeCtx(stale.peer, stale.poll.key, peerPubRef, sendingMessageId)
     IN \E out \in {LoopAfterAwait(FALSE, items, sinceRef, r, cx)} :
          /\ items' = out.items
          /\ sinceRef' = out.since
          /\ stale' = OldLoop(out.pc, TRUE, stale.peer, r)
  /\ UNCHANGED <<libVars, composing, destruct, pollErrors, secureStore,
                 relayVars, peerUsername, sendingMessageId, peerPubRef,
                 convoKeyRef, lookup, pollPc, inflight, outcome, sends, nextTemp,
                 switches, tombstoned>>

\* the client that polls, switches the peer or closes the conversation,
\* while the other parties send
NextLeaving ==
  \/ \E p \in Peers : SwitchPeerLeaving(p)
  \/ Close
  \/ LookupResolve
  \/ PollIssue
  \/ PollReceive
  \/ StaleReceive
  \/ \E b \in PeerBodies : PeerSend(b)

SpecLeaving == Init /\ [][NextLeaving]_vars

\* the old loop has ended in this step: its response arrived
StaleEnds == stale.pc = "inflight" /\ stale'.pc # "inflight" /\ stale'.served

\* C21: after the conversation is closed or its peer switched, the loop of
\* the old conversation issues no further poll, and the response of the
\* poll that was outstanding is dropped: neither the timeline nor the
\* cursor changes when it arrives.
C21_OldLoopDiscarded ==
  /\ [](stale.pc # "timer")
  /\ [][StaleEnds => items' = items /\ sinceRef' = sinceRef]_vars

\* the response of the old loop held a record, arrived after the peer was
\* switched or the conversation closed, and the loop has ended
C21_Witness ==
  /\ switches = 1
  /\ stale.pc = "none"
  /\ stale.served
  /\ stale.poll.messages # <<>>
  /\ \A i \in 1..Len(items) : items[i].id \notin {stale.poll.messages[j].id : j \in 1..Len(stale.poll.messages)}

\* ------------------------------------- client: setting up a conversation
\* users.json without Carol: her handle is not registered
WithoutCarol == [AllUsers EXCEPT ![Carol] = NoKey]

\* ChatScreen mounted on the conversation with Bob, Carol registered or not
InitSetup ==
  /\ users \in {AllUsers, WithoutCarol}
  /\ messages = <<>>
  /\ request = NoRequest
  /\ reply = NoReply
  /\ peerUsername = Bob
  /\ items = <<>>
  /\ sinceRef = 0
  /\ sendingMessageId = 0
  /\ peerPubRef = NoKey
  /\ convoKeyRef = {}
  /\ lookup = "pending"
  /\ pollPc = "timer"
  /\ inflight = NoPoll
  /\ outcome = NoOutcome
  /\ sends = {}
  /\ nextTemp = 0
  /\ switches = 0
  /\ tombstoned = {}
  /\ LoopIdle
  /\ LibIdle

\* onSend up to await getStoredKeypair: the Composer is shown, the input is
\* not blank and convoKeyRef.current is set; the call keeps the
\* peerUsername of its render
OnSendStart(text) ==
  /\ ComposerShown
  /\ text # ""
  /\ convoKeyRef # {}
  /\ ~composing.active
  /\ nextTemp < MaxOwnSends
  /\ composing' = Composing(TRUE, peerUsername, text)
  /\ UNCHANGED <<libVars, secureStore, stale, destruct, pollErrors, relayVars, peerUsername, items, sinceRef,
                 sendingMessageId, peerPubRef, convoKeyRef, lookup, pollPc,
                 inflight, outcome, sends, nextTemp, switches, tombstoned>>

\* onSend from await getStoredKeypair to await sendMessage: the key is read
\* from convoKeyRef.current, the payload goes to the peer of the call, the
\* placeholder is added and sendingMessageId set, which runs the poll effect
OnSendBuild(ts) ==
  /\ composing.active
  /\ convoKeyRef # {}
  /\ LET tempId == 0 - (nextTemp + 1)
         payload == TextPayload(composing.text, 1, convoKeyRef, composing.peer, ts)
     IN /\ sendingMessageId' = tempId
        /\ sends' = sends \cup {[tempId |-> tempId, body |-> payload, id |-> 0]}
        /\ nextTemp' = nextTemp + 1
        /\ PollEffect
  /\ composing' = NoComposing
  /\ UNCHANGED <<libVars, secureStore, stale, destruct, pollErrors, relayVars, peerUsername, peerPubRef, convoKeyRef,
                 lookup, outcome, switches, tombstoned>>

\* the client that opens conversations, looks the peer up, polls and sends,
\* while the other parties send
NextSetup ==
  \/ \E p \in Peers : SwitchPeer(p)
  \/ LookupResolve
  \/ PollIssue
  \/ PollReceive
  \/ OnSendStart("yo")
  \/ \E ts \in 1..MaxTime : OnSendBuild(ts)
  \/ \E s \in sends : RelayAccept(s)
  \/ \E s \in sends : SendAck(s)
  \/ \E b \in PeerBodies : PeerSend(b)

SpecSetup == InitSetup /\ [][NextSetup]_vars

\* ------------------------------------------ client: the self-destruct timer
\* prev.filter(i => i.id !== msgId), were the entry left in place
SelfDestruct_Keep(s, msgId) == s

\* prev.filter(i => i.id !== msgId)
SelfDestruct(s, msgId) ==
  LET Keep(i) == i.id # msgId
  IN SelectSeq(s, Keep)

\* the timer set after the acknowledgement fires: the entry is filtered out
\* and deleteMessage(msgId, normalizedFrom) is called
TimerFire ==
  /\ destruct.pc = "idle"
  /\ outcome.result = "sent"
  /\ outcome.timer
  /\ items' = SelfDestruct(items, outcome.msgId)
  /\ destruct' = Timer("deleting", outcome.msgId)
  /\ UNCHANGED <<libVars, secureStore, stale, composing, pollErrors, relayVars, peerUsername, sinceRef,
                 sendingMessageId, peerPubRef, convoKeyRef, lookup, pollPc,
                 inflight, outcome, sends, nextTemp, switches, tombstoned>>

\* the relay serves the POST /delete of the timer and answers ok
DeleteServe(t) ==
  /\ destruct.pc = "deleting"
  /\ DeleteStatus(messages, destruct.msgId, Normalize(MeUser)) = 200
  /\ messages' = DeleteStore(messages, destruct.msgId, Normalize(MeUser), t)
  /\ destruct' = Timer("deleted", destruct.msgId)
  /\ UNCHANGED <<libVars, secureStore, stale, composing, pollErrors, users, request, reply, peerUsername,
                 items, sinceRef, sendingMessageId, peerPubRef, convoKeyRef,
                 lookup, pollPc, inflight, outcome, sends, nextTemp, switches,
                 tombstoned>>

\* the delete request fails or the relay rejects it: deleteMessage throws
\* and the empty catch swallows the error
DeleteFail ==
  /\ destruct.pc = "deleting"
  /\ destruct' = Timer("failed", destruct.msgId)
  /\ UNCHANGED <<libVars, secureStore, stale, composing, pollErrors, relayVars, peerUsername, items,
                 sinceRef, sendingMessageId, peerPubRef, convoKeyRef, lookup,
                 pollPc, inflight, outcome, sends, nextTemp, switches, tombstoned>>

\* the client that sends with a self-destruct delay chosen and polls, while
\* the peer sends
NextTimer ==
  \/ LookupResolve
  \/ PollIssue
  \/ PollReceive
  \/ \E ts \in 1..MaxTime : OnSend("yo", ts)
  \/ \E s \in sends : RelayAccept(s)
  \/ \E s \in sends : SendAck(s)
  \/ TimerFire
  \/ \E t \in 1..MaxTime : DeleteServe(t)
  \/ DeleteFail
  \/ \E b \in {pb \in PeerBodies : pb.from = Bob} : PeerSend(b)

SpecTimer == Init /\ [][NextTimer]_vars

\* ------------------------------------------------- client: a failed poll
\* number of polls that fail in a run
MaxPollFails == 2

\* the end of loop() after the catch, were the next poll not scheduled
AfterCatch_Stop(isMounted) == "none"

\* the end of loop(): if (isMounted) timer = setTimeout(loop, 800)
AfterCatch(isMounted) == IF isMounted THEN "timer" ELSE "none"

\* poll throws, because the request failed or the relay did not answer ok:
\* the catch logs the error and the loop goes to its end
PollFail ==
  /\ pollPc \in {"sent", "inflight"}
  /\ pollErrors < MaxPollFails
  /\ pollErrors' = pollErrors + 1
  /\ pollPc' = AfterCatch(TRUE)
  /\ inflight' = NoPoll
  /\ UNCHANGED <<libVars, secureStore, stale, composing, destruct, relayVars, peerUsername,
                 items, sinceRef, sendingMessageId, peerPubRef, convoKeyRef,
                 lookup, outcome, sends, nextTemp, switches, tombstoned>>

\* the client that keeps the conversation open, polls and sends, while the
\* peer sends; a poll may fail
NextRetry ==
  \/ LookupResolve
  \/ PollIssue
  \/ PollReceive
  \/ PollFail
  \/ \E ts \in 1..MaxTime : OnSend("yo", ts)
  \/ \E s \in sends : RelayAccept(s)
  \/ \E s \in sends : SendAck(s)
  \/ \E b \in {pb \in PeerBodies : pb.from = Bob} : PeerSend(b)

\* the await of poll ends: the response arrives or poll throws
PollSettles == PollReceive \/ PollFail

\* the lookup is answered, the timer fires, the relay answers and every
\* poll request settles
SpecRetry ==
  /\ Init
  /\ [][NextRetry]_vars
  /\ WF_vars(LookupResolve) /\ WF_vars(PollIssue) /\ WF_vars(PollSettles)

\* ------------------------------------------------ client: claims C22-C25
\* the timeline that one poll with since = 0, merged into an empty
\* timeline, gives for the store as it is
Rebuilt ==
  Merge(<<>>, PollInFlight(0, convoKeyRef, PollReply(messages, MeUser, 0)), 0,
        MergeCtx(Normalize(peerUsername), convoKeyRef, peerPubRef, 0)).items

\* C22: the timeline can be rebuilt and incremental polling loses nothing:
\* when the conversation stays open while the parties send, with any
\* timestamps and in any order, and delete, the timeline built by the
\* successive polls is in the end the timeline that one poll with
\* since = 0 merged into an empty timeline gives.
C22_Reconstructible == <>[](items = Rebuilt)

\* nanoid(12) draws a random string: the order of the strings of the ids
\* is any order; rank[id] is the place of the string of id in it
IdOrders ==
  {rank \in [1..MaxMsgs -> 1..MaxMsgs] :
     \A a, b \in 1..MaxMsgs : a # b => rank[a] # rank[b]}

\* the timeline is in ascending order of the timestamps
SortedByCreatedAt ==
  \A i, j \in 1..Len(items) : i < j => items[i].timestamp <= items[j].timestamp

\* entries of the same timestamp are in the order of their ids
TiesById(rank) ==
  \A i, j \in 1..Len(items) :
    (i < j /\ items[i].timestamp = items[j].timestamp
       /\ items[i].id > 0 /\ items[j].id > 0)
      => rank[items[i].id] < rank[items[j].id]

\* C23: after every merge of a poll response and after every send step the
\* timeline is sorted ascending by (createdAt, id): entries of the same
\* createdAt are in the order of their ids, whatever the order of arrival.
C23_SortedByCreatedAtAndId ==
  /\ SortedByCreatedAt
  /\ \A rank \in IdOrders : TiesById(rank)

\* the part of C23 that holds: the timeline is always in ascending order
\* of createdAt
C23_SortedByTime == SortedByCreatedAt

\* the conversation is in PeerNotFound and stays there over the step
NotFoundStays == lookup = "notfound" /\ lookup' = "notfound"

\* the step starts a send to the open peer
SendsToPeer ==
  \E s \in sends' \ sends : s.body.to = Normalize(peerUsername)

\* C24: when the key lookup of a newly opened conversation reports no such
\* handle, the conversation is in PeerNotFound and stays there: no poll is
\* issued for it, no record is admitted into its timeline and no message is
\* sent to that peer, whichever conversation was open before.
C24_PeerNotFoundHalts ==
  /\ [](lookup = "notfound" => items = <<>>)
  /\ [][NotFoundStays =>
         /\ ~(pollPc = "timer" /\ pollPc' = "inflight")
         /\ ~SendsToPeer]_vars

\* the part of C24 that holds: in PeerNotFound the Composer starts no send
C24_NoSendStarted ==
  [][NotFoundStays => (composing'.active => composing.active)]_vars

\* the step takes an entry out of the timeline that no deletion named
EntryCleared ==
  \E i \in 1..Len(items) :
    /\ items[i].id \notin ItemIds(items')
    /\ items[i].id \notin tombstoned'

\* the step puts the cursor back to 0, and is not the answer of the lookup
CursorReset == sinceRef # 0 /\ sinceRef' = 0 /\ lookup' = lookup

\* C25: the client empties the timeline and resets the cursor to 0 when,
\* and only when, the open peer changes; starting a send, receiving its
\* acknowledgement or merging a poll response never clears entries that
\* are in the timeline.
C25_ClearedOnlyOnPeerChange ==
  [][/\ peerUsername' # peerUsername => (items' = <<>> /\ sinceRef' = 0)
     /\ (EntryCleared \/ CursorReset) => peerUsername' # peerUsername]_vars

\* the part of C25 that holds: a change of the peer empties the timeline
\* and resets the cursor
C25_ClearedOnPeerChange ==
  [][peerUsername' # peerUsername => (items' = <<>> /\ sinceRef' = 0)]_vars

\* ------------------------------------------------ client: claims C26-C28
\* the key of the conversation of the local user with the handle h
PairKeyOf(h) == deriveSharedKey(MySecret, PublicKey(IdOf(h)))

\* every record the client submitted opens under the key of the
\* conversation with the handle it is addressed to
SentUnderPeerKey ==
  \A s \in sends :
    HasText(s.body.ciphertext) =>
      decryptMessage(s.body.ciphertext, s.body.nonce, PairKeyOf(s.body.to)) # Null

\* when the merge of the outstanding response admits a record, the key the
\* loop opens it with is the key of the open conversation
AdmittedUnderPeerKey ==
  pollPc = "inflight" =>
    LET mg == Merge(items, inflight, inflight.since, CurrentCtx)
    IN ItemIds(mg.items) \ ItemIds(items) # {} =>
         inflight.key = PairKeyOf(Normalize(peerUsername))

\* C26: every record the client submits with to = P is sealed under the
\* key derived from the local secret key and P's public key, and every
\* record admitted into the timeline of me and P was opened under that
\* key, in every interleaving of a switch of the conversation, the lookup
\* of the new peer's key, a send and a poll.
C26_KeyMatchesPeer == SentUnderPeerKey /\ AdmittedUnderPeerKey

\* the self-destruct timer fires in this step
TimerFiring == destruct.pc = "idle" /\ destruct'.pc = "deleting"

\* the delete request of the timer ends in this step, well or not
DeleteSettling ==
  destruct.pc = "deleting" /\ destruct'.pc \in {"deleted", "failed"}

\* C27: when the self-destruct timer of a sent message fires, the entry of
\* the message is removed from the timeline and a delete request for it is
\* issued to the relay; the removal is made whether the request succeeds
\* or fails.
C27_SelfDestructRemoves ==
  /\ [][TimerFiring => destruct'.msgId \notin ItemIds(items')]_vars
  /\ [][DeleteSettling => items' = items]_vars
  /\ [](destruct.pc \in {"deleted", "failed"} =>
          (destruct.pc = "deleted" <=> messages[destruct.msgId].deleted))

\* the timer fired while the entry was shown beside another one, the
\* delete request failed and the entry is gone while the relay keeps the
\* record
C27_Witness ==
  /\ destruct.pc = "failed"
  /\ destruct.msgId \notin ItemIds(items)
  /\ items # <<>>
  /\ ~messages[destruct.msgId].deleted

\* poll has thrown in this step
PollFailing == pollErrors' # pollErrors

\* C28: a failed poll does not stop the synchronisation: while the
\* conversation is open with its key resolved, after every poll that
\* completed, well or not, another poll is issued in the end, and a failed
\* poll changes neither the timeline nor the cursor.
C28_PollingSurvivesFailure ==
  /\ (lookup = "ok") ~> Outstanding
  /\ [][PollFailing => items' = items /\ sinceRef' = sinceRef]_vars

\* after a failed poll another poll is outstanding and the timeline is as
\* the polls before the failure built it
C28_Witness ==
  /\ pollErrors > 0
  /\ pollPc = "inflight"
  /\ items # <<>>
  /\ sinceRef > 0

\* ------------------------------------------------------------- claim C29
\* the file imported last was sealed under another passphrase than the one
\* onImport unmasks with, or was altered after it was written
WrongPassphrase == call.file.pass # "demo-passphrase"
CorruptedBlob == call.file.at # 0

\* C29: an import with a wrong passphrase or of a corrupted blob signals an
\* error and leaves the stored public and private key as they were before
\* the import, and no import stores a key other than the exported one.
C29_ImportAllOrNothing ==
  call.op = "import" =>
    /\ (WrongPassphrase \/ CorruptedBlob) =>
         (call.alert = "Import failed" /\ secureStore = call.before)
    /\ secureStore \in {call.before, call.file.identity}

\* the part of C29 that holds: a file sealed under another passphrase, or
\* altered in the syntax of its text, is refused and the store is untouched
C29_UnparseableRefused ==
  (call.op = "import" /\ (WrongPassphrase \/ call.file.at = 1)) =>
    (call.alert = "Import failed" /\ secureStore = call.before)

C29_Witness ==
  /\ call.op = "import"
  /\ WrongPassphrase
  /\ call.file.identity # call.before
  /\ call.alert = "Import failed"

\* an altered file that still parses is stored without complaint
C29_AlteredKeyStored ==
  ~(/\ call.op = "import"
    /\ CorruptedBlob
    /\ call.alert = "Imported"
    /\ secureStore # call.file.identity
    /\ secureStore # call.before)

\* a throw at the second write leaves the new public key beside the old
\* private key
C29_HalfRestored ==
  ~(/\ call.op = "import"
    /\ call.alert = "Import failed"
    /\ secureStore.publicKey = call.file.identity.publicKey
    /\ secureStore.secretKey = call.before.secretKey
    /\ secureStore # call.before)

\* ------------------------------------------------------------- claim C30
\* every stored record and every registered user is there after the step
KeepsRecords ==
  \A i \in 1..Len(messages) :
    i <= Len(messages') /\ messages'[i].id = messages[i].id

KeepsUsers == \A h \in Handles : users[h] # NoKey => users'[h] # NoKey

\* what the last request was answered ok for is in the files
AckedIsStored ==
  /\ (reply.op = "send" /\ reply.status = 200) =>
       \E i \in 1..Len(messages) :
         messages[i] = StoredMessage(reply.id, request.body)
  /\ (reply.op = "delete" /\ reply.status = 200) =>
       \E i \in 1..Len(messages) :
         messages[i].id = request.id /\ messages[i].deleted
  /\ (reply.op = "register" /\ reply.status = 200) =>
       users[Normalize(request.handle)] = request.publicKey

\* C30: whatever reads and writes of the relay's files fail during
\* Register, Send and Delete requests, every record and every user that was
\* acknowledged stays in the store, and no request whose write failed is
\* acknowledged as ok.
C30_FailuresLoseNothing ==
  /\ [][KeepsRecords /\ KeepsUsers]_vars
  /\ []AckedIsStored

\* the parts of C30, each of which fails on its own
C30_RecordsKept == [][KeepsRecords]_vars

C30_UsersKept == [][KeepsUsers]_vars

C30_AckedIsStored == AckedIsStored

\* the part of C30 that holds: a request that is not answered ok leaves
\* both files as they were
C30_RefusedTouchesNothing ==
  [][reply'.status # 200 => (messages' = messages /\ users' = users)]_vars

====
